---- MODULE Spec2Model ----
(***************************************************************************)
(* Model of the finance-tracking bot of src/src/bot.py: the ledger (the    *)
(* expenses and incomes tables), the per-user session (context.user_data), *)
(* the per-user state of each ConversationHandler, and the handlers in the *)
(* order main() registers them in the application's single handler group.  *)
(*                                                                         *)
(* Conventions.                                                            *)
(*  - A handler is an operator from (user, text, session, ledger) to a     *)
(*    result [ud, db, ret, replies]: the session and the ledger it leaves, *)
(*    the value it returns and the replies it sends.  ret = "RAISE" is an  *)
(*    exception that leaves the handler, ret = "NONE" is Python's None.    *)
(*  - The names EDIT_NUMBER, EDIT_VALUE and DELETE_NUMBER are bound        *)
(*    nowhere in src/src/bot.py (line 43 does not list them), so          *)
(*    evaluating one of them raises NameError at that point.  main()       *)
(*    itself names DELETE_NUMBER as a state key (line 2914); the model     *)
(*    takes the registrations of main() as the table they write, in which  *)
(*    no handler ever returns that state.                                  *)
(*  - Amounts are Python floats: a number is kept in cents, inf and nan    *)
(*    are values of their own.                                             *)
(*  - The reply sink and the storage reads are taken as reliable; an       *)
(*    INSERT may fail (save_expense catches that).                         *)
(***************************************************************************)
EXTENDS Integers, Sequences, FiniteSets, TLC

VARIABLES expenses, incomes, seq, user_data, conv

vars == <<expenses, incomes, seq, user_data, conv>>

(***************************************************************************)
(* Bounds of the model                                                     *)
(***************************************************************************)
\* rows ever inserted, both tables together
MaxRows == 2

\* entries of a ledger taken as given
MaxEntries == 3

\* the users of the ledger (the ids of src/tests/test_multiuser.py); the
\* chat of the first is followed update by update, the second is seen through
\* the entries it records
Users == {12345, 67890}
Chatting == {12345}
Recording == {67890}

(***************************************************************************)
(* Program constants                                                       *)
(***************************************************************************)
MAX_AMOUNT == 999999
MAX_DESCRIPTION == 200
MAX_SUBSCRIPTION == 50

SUBCATEGORIES ==
    [Home |-> {"Rent", "Light", "Water", "Net", "Me Mimei", "Other"},
     Car |-> {"Fuel", "Insurance", "Maintenance", "Parking", "Via Verde", "Other"},
     Lazer |-> {"Dining Out", "Movies/Shows", "Hobbies", "Coffees", "Other"},
     Travel |-> {"Flights", "Hotels", "Transportation", "Food", "Activities", "Other"},
     Needs |-> {"Groceries", "Clothing", "Personal Care", "Other"},
     Health |-> {"Doctor", "Pharmacy", "Hospital_Urgency", "Gym", "Supplements", "Other"},
     Others |-> {"Gifts", "Pet", "Mi Mimei", "Maomao", "Other"},
     Incomes |-> {"Refeicao", "Subsidio", "Bonus", "Salary", "Interest", "Others"}]

AUTO_DESCRIPTION ==
    [Home |-> {"Rent", "Light", "Water", "Net"},
     Car |-> {"Fuel", "Insurance", "Via Verde"},
     Health |-> {"Doctor", "Pharmacy", "Gym", "Other"},
     Needs |-> {"Groceries"},
     Incomes |-> {"Refeicao", "Subsidio", "Bonus", "Salary"}]

TEXT_SUBCATEGORY_CATEGORIES == {"Subscriptions"}

\* the categories of the keyboard of the category step
EXPENSE_CATEGORIES ==
    {"Home", "Car", "Lazer", "Travel", "Needs", "Health", "Subscriptions", "Others"}

\* the description amount() stores when the description step is skipped
Placeholder == "N/A"

\* get_today_date(): a canonical date YYYY-MM-DD is kept as the number
\* YYYYMMDD, whose order is the order of the canonical strings; the clock
\* stays within one day
Today == 20261101

(***************************************************************************)
(* Python values                                                           *)
(***************************************************************************)
Num(c) == [kind |-> "num", v |-> c]
Inf == [kind |-> "inf", v |-> 0]
NaN == [kind |-> "nan", v |-> 0]
ValueError == [kind |-> "err", v |-> 0]

\* float(text)
float(t) ==
    CASE t = "0" -> Num(0)
      [] t = "1" -> Num(1 * 100)
      [] t = "2" -> Num(2 * 100)
      [] t = "3" -> Num(3 * 100)
      [] t = "50" -> Num(50 * 100)
      [] t = "100" -> Num(100 * 100)
      [] t = "500" -> Num(500 * 100)
      [] t = "2026" -> Num(2026 * 100)
      [] t = "2025" -> Num(2025 * 100)
      [] t = "-50" -> Num(-50 * 100)
      [] t = "0.01" -> Num(1)
      [] t = "999999" -> Num(999999 * 100)
      [] t = "1000000" -> Num(1000000 * 100)
      [] t = "1000.00" -> Num(1000 * 100)
      [] t = "2000.00" -> Num(2000 * 100)
      [] t = "inf" -> Inf
      [] t = "nan" -> NaN
      [] OTHER -> ValueError

\* int(text)
int(t) ==
    CASE t = "0" -> Num(0)
      [] t = "1" -> Num(1)
      [] t = "2" -> Num(2)
      [] t = "3" -> Num(3)
      [] t = "50" -> Num(50)
      [] t = "100" -> Num(100)
      [] t = "500" -> Num(500)
      [] t = "2026" -> Num(2026)
      [] t = "2025" -> Num(2025)
      [] t = "-50" -> Num(-50)
      [] t = "999999" -> Num(999999)
      [] t = "1000000" -> Num(1000000)
      [] OTHER -> ValueError

\* str.isdigit()
isdigit(t) ==
    t \in {"0", "1", "2", "3", "50", "100", "500", "2026", "2025", "999999", "1000000"}

\* math.isfinite(x)
isfinite(x) == x.kind = "num"

\* the check of the upper limit left out: C4 does not survive it
no_upper_limit(x) == FALSE

\* x <= 0 and x > MAX_AMOUNT on floats: every comparison with nan is false
le_zero(x) == x.kind = "num" /\ x.v <= 0
gt_max(x) == (x.kind = "num" /\ x.v > MAX_AMOUNT * 100) \/ x.kind = "inf"

\* "Cancel" in text, "Today" in text, ...: the texts are written without the
\* emoji the keyboards put before a label, and with ASCII letters
contains(t, w) ==
    CASE w = "Cancel" -> t \in {"Cancel"}
      [] w = "Today" -> t \in {"Today"}
      [] w = "Specific Day" -> t \in {"Specific Day"}
      [] w = "Month" -> t \in {"Month"}
      [] w = "Year" -> t \in {"Year"}
      [] w = "Expenses" -> t \in {"Expenses"}
      [] w = "Incomes" -> t \in {"Incomes"}
      [] OTHER -> FALSE

\* text.lower().strip()
lower(t) ==
    CASE t = "Expenses" -> "expenses"
      [] t = "Expense" -> "expense"
      [] t = "Income" -> "income"
      [] t = "Incomes" -> "incomes"
      [] OTHER -> t

\* len(text) of the texts the model sends
len(t) ==
    CASE t \in {"x", "0", "1", "2", "3"} -> 1
      [] t \in {"ab", "50"} -> 2
      [] t \in {" x ", "abc", "100", "500"} -> 3
      [] t \in {"2026", "2025"} -> 4
      [] t = "name of 50" -> 50
      [] t = "name of 51" -> 51
      [] t = "text of 201" -> 201
      [] t = "text of 200" -> 200
      [] OTHER -> 5

\* str.strip(): the text without the white space around it
strip(t) == IF t = " x " THEN "x" ELSE t

(***************************************************************************)
(* context.user_data: a dict, modelled as a function on the keys present   *)
(***************************************************************************)
EmptyDict == [k \in {} |-> 0]
Has(d, k) == k \in DOMAIN d
Get(d, k, default) == IF k \in DOMAIN d THEN d[k] ELSE default
Put(d, k, v) == [x \in DOMAIN d \cup {k} |-> IF x = k THEN v ELSE d[x]]
Pop(d, ks) == [x \in DOMAIN d \ ks |-> d[x]]
\* the truth value of user_data.get(k): the values stored are never empty
Truthy(d, k) == k \in DOMAIN d

(***************************************************************************)
(* The ledger                                                              *)
(***************************************************************************)
DB == [expenses |-> expenses, incomes |-> incomes, seq |-> seq]

TableOf(db, table) == IF table = "incomes" THEN db.incomes ELSE db.expenses

WithTable(db, table, rows) ==
    IF table = "incomes" THEN [db EXCEPT !.incomes = rows]
    ELSE [db EXCEPT !.expenses = rows]

\* INSERT INTO {table}: id from the table's AUTOINCREMENT sequence, never
\* reused; time is the position of the insert in the order of all inserts
InsertRowOn(db, table, user_id, cat, sub, amt, desc, date) ==
    LET id == db.seq[table] + 1
        row == [id |-> id, user_id |-> user_id, date |-> date,
                time |-> db.seq.expenses + db.seq.incomes + 1,
                category |-> cat, subcategory |-> sub, amount |-> amt,
                description |-> desc]
    IN [WithTable(db, table, TableOf(db, table) \cup {row})
            EXCEPT !.seq[table] = id]

\* target_date is None in the add flow: the date is get_today_date()
InsertRow(db, table, user_id, cat, sub, amt, desc) ==
    InsertRowOn(db, table, user_id, cat, sub, amt, desc, Today)

\* every entry sent to the expenses table: C5 does not survive it
one_table(cat) == "expenses"

\* the table save_expense writes to
save_table(cat) == IF cat = "Incomes" THEN "incomes" ELSE "expenses"

\* a transaction that keeps what it wrote when it fails: C15 does not survive it
no_rollback(db, written) == written

\* conn.rollback(): what the statements of the transaction wrote is undone
rollback(db, written) == db

\* with get_db_connection() as conn: commit when the block ends, roll back
\* and raise again when the block raises (ok = FALSE)
get_db_connection(db, written, ok) == IF ok THEN written ELSE rollback(db, written)

\* save_expense: [ok, db]; stored = FALSE is an INSERT that raised
save_expense(db, cat, sub, amt, desc, user_id, stored) ==
    [ok |-> stored,
     db |-> get_db_connection(
                db, InsertRow(db, save_table(cat), user_id, cat, sub, amt, desc), stored)]

\* a lookup that never skips the description step: C16 does not survive it
never_skip(cat, sub) == FALSE

\* every subcategory of a configured category skipped: C19 does not survive it
skip_whole_category(cat, sub) == cat \in DOMAIN AUTO_DESCRIPTION

\* a value of the configuration: the string "all" or a list of subcategories
All == [all |-> TRUE, subs |-> {}]
Listed(subs) == [all |-> FALSE, subs |-> subs]

\* the body of should_skip_description over a configuration
skip_lookup(config, cat, sub) ==
    IF cat \notin DOMAIN config THEN FALSE
    ELSE LET auto_subs == config[cat]
         IN IF auto_subs = All THEN TRUE
            ELSE sub \in auto_subs.subs

\* should_skip_description reads the module's AUTO_DESCRIPTION, all of whose
\* values are lists
should_skip_description(cat, sub) ==
    skip_lookup([c \in DOMAIN AUTO_DESCRIPTION |-> Listed(AUTO_DESCRIPTION[c])], cat, sub)

(***************************************************************************)
(* Handler results                                                         *)
(***************************************************************************)
Idle == "idle"
END == "END"
NONE == "NONE"
RAISE == "RAISE"

R(ud, db, ret, replies) == [ud |-> ud, db |-> db, ret |-> ret, replies |-> replies]

(***************************************************************************)
(* The add flow                                                            *)
(***************************************************************************)
start(ud, db) ==
    R(EmptyDict, db, "ADD_TYPE",
      IF ud # EmptyDict THEN <<"previous_cancelled", "welcome">> ELSE <<"welcome">>)

add_expense(ud, db) ==
    R(EmptyDict, db, "ADD_TYPE",
      IF ud # EmptyDict THEN <<"previous_cancelled", "select_type">> ELSE <<"select_type">>)

\* Income handled like Expenses, by the category menu: C17 does not survive it
income_by_category(t, ud, db) ==
    IF lower(t) \in {"expense", "expenses", "income", "incomes"}
    THEN R(Put(ud, "entry_type", "expense"), db, "CATEGORY", <<"select_category">>)
    ELSE R(ud, db, "ADD_TYPE", <<"choose_type">>)

handle_add_type(t, ud, db) ==
    IF lower(t) \in {"expense", "expenses"}
    THEN R(Put(ud, "entry_type", "expense"), db, "CATEGORY", <<"select_category">>)
    ELSE IF lower(t) \in {"income", "incomes"}
    THEN R(Put(Put(ud, "entry_type", "income"), "category", "Incomes"), db,
           "SUBCATEGORY", <<"select_income_category">>)
    ELSE R(ud, db, "ADD_TYPE", <<"choose_type">>)

category(t, ud, db) ==
    LET selected_category == strip(t)
        ud1 == Put(ud, "category", selected_category)
    IN IF selected_category \in TEXT_SUBCATEGORY_CATEGORIES
       THEN R(ud1, db, "SUBCATEGORY", <<"write_subscription">>)
       ELSE IF selected_category \in DOMAIN SUBCATEGORIES
       THEN R(ud1, db, "SUBCATEGORY", <<"select_subcategory">>)
       ELSE R(ud1, db, "AMOUNT", <<"enter_amount">>)

\* the subscription name refused from MAX_SUBSCRIPTION characters on: C30
\* does not survive it
subcategory_below_max(t, ud, db) ==
    LET selected_subcategory == strip(t)
    IN IF ~Has(ud, "category") THEN R(ud, db, RAISE, <<>>)
       ELSE IF ud["category"] \in TEXT_SUBCATEGORY_CATEGORIES
                 /\ len(selected_subcategory) >= MAX_SUBSCRIPTION
       THEN R(ud, db, "SUBCATEGORY", <<"subscription_too_long">>)
       ELSE IF ud["category"] \in TEXT_SUBCATEGORY_CATEGORIES /\ len(selected_subcategory) < 2
       THEN R(ud, db, "SUBCATEGORY", <<"subscription_too_short">>)
       ELSE R(Put(ud, "subcategory", selected_subcategory), db, "AMOUNT", <<"enter_amount">>)

subcategory(t, ud, db) ==
    LET selected_subcategory == strip(t)
    IN IF ~Has(ud, "category") THEN R(ud, db, RAISE, <<>>)
       ELSE IF ud["category"] \in TEXT_SUBCATEGORY_CATEGORIES
                 /\ len(selected_subcategory) > MAX_SUBSCRIPTION
       THEN R(ud, db, "SUBCATEGORY", <<"subscription_too_long">>)
       ELSE IF ud["category"] \in TEXT_SUBCATEGORY_CATEGORIES /\ len(selected_subcategory) < 2
       THEN R(ud, db, "SUBCATEGORY", <<"subscription_too_short">>)
       ELSE LET ud1 == Put(ud, "subcategory", selected_subcategory)
                ud2 == IF should_skip_description(ud["category"], selected_subcategory)
                       THEN Put(ud1, "skip_description", TRUE) ELSE ud1
            IN R(ud2, db, "AMOUNT", <<"enter_amount">>)

\* lines 1629-1645: the value passes the three checks
amount_valid(x) == isfinite(x) /\ ~le_zero(x) /\ ~gt_max(x)

\* lines 1649-1669 and 1698-1716: save, reply, clear the session, END
save_and_end(ud, db, user_id, desc, stored) ==
    IF ~Has(ud, "category") \/ ~Has(ud, "amount") THEN R(ud, db, RAISE, <<>>)
    ELSE LET s == save_expense(db, ud["category"], Get(ud, "subcategory", "N/A"),
                               ud["amount"], desc, user_id, stored)
         IN R(EmptyDict, s.db, END, IF s.ok THEN <<"saved">> ELSE <<"save_error">>)

\* the amount stored in the session before it is validated: C26 does not
\* survive it
amount_stored_first(u, t, ud, db, stored) ==
    LET x == float(t)
        ud1 == Put(ud, "amount", x)
    IN IF x.kind = "err" THEN R(ud, db, "AMOUNT", <<"amount_not_number">>)
       ELSE IF ~amount_valid(x) THEN R(ud1, db, "AMOUNT", <<"amount_invalid">>)
       ELSE IF Get(ud1, "skip_description", FALSE)
       THEN save_and_end(ud1, db, u, Placeholder, stored)
       ELSE R(ud1, db, "DESCRIPTION", <<"enter_description">>)

amount(u, t, ud, db, stored) ==
    LET x == float(t)
    IN IF x.kind = "err" THEN R(ud, db, "AMOUNT", <<"amount_not_number">>)
       ELSE IF ~isfinite(x) THEN R(ud, db, "AMOUNT", <<"amount_invalid">>)
       ELSE IF le_zero(x) THEN R(ud, db, "AMOUNT", <<"amount_not_positive">>)
       ELSE IF gt_max(x) THEN R(ud, db, "AMOUNT", <<"amount_too_large">>)
       ELSE LET ud1 == Put(ud, "amount", x)
            IN IF Get(ud1, "skip_description", FALSE)
               THEN save_and_end(ud1, db, u, Placeholder, stored)
               ELSE R(ud1, db, "DESCRIPTION", <<"enter_description">>)

\* description_text[:MAX_DESCRIPTION]
truncate(t) == IF len(t) > MAX_DESCRIPTION THEN "text of 200" ELSE t

description(u, t, ud, db, stored) ==
    LET text == truncate(t)
        notice == IF len(t) > MAX_DESCRIPTION THEN <<"description_truncated">> ELSE <<>>
        ud1 == Put(ud, "description", text)
        r == save_and_end(ud1, db, u, text, stored)
    IN [r EXCEPT !.replies = notice \o @]

cancel(ud, db) == R(EmptyDict, db, END, <<"operation_cancelled">>)

unknown_command(ud, db) == R(ud, db, NONE, <<"use_help">>)


(***************************************************************************)
(* Ledger reads and writes of the edit and delete flows                    *)
(***************************************************************************)
\* ORDER BY date DESC, time DESC
Before(r, q) == r.date > q.date \/ (r.date = q.date /\ r.time > q.time)

RECURSIVE OrderRows(_)
OrderRows(S) ==
    IF S = {} THEN <<>>
    ELSE LET m == CHOOSE r \in S : \A q \in S \ {r} : Before(r, q)
         IN <<m>> \o OrderRows(S \ {m})

\* the SELECT without its user_id condition: C3 does not survive it
select_all_users(rows, user_id, start_date, end_date) ==
    {r \in rows : r.date >= start_date /\ r.date <= end_date}

\* the SELECT with date < ? as its upper condition: C39 does not survive it
select_before_end(rows, user_id, start_date, end_date) ==
    {r \in rows : r.user_id = user_id /\ r.date >= start_date /\ r.date < end_date}

\* SELECT * FROM {table} WHERE user_id = ? AND date >= ? AND date <= ?
select_period(rows, user_id, start_date, end_date) ==
    {r \in rows : r.user_id = user_id /\ r.date >= start_date /\ r.date <= end_date}

get_entries_for_period(db, start_date, end_date, user_id, table) ==
    OrderRows(select_period(TableOf(db, table), user_id, start_date, end_date))

\* WHERE user_id = ? AND date = ? ORDER BY time DESC
get_entries_for_date(db, target_date, user_id, table) ==
    OrderRows(select_period(TableOf(db, table), user_id, target_date, target_date))

\* the DELETE without its user_id condition: C1 does not survive it
delete_any_owner(rows, id, user_id) == {r \in rows : r.id # id}

\* DELETE FROM {table} WHERE id = ? AND user_id = ?
delete_where(rows, id, user_id) == {r \in rows : ~(r.id = id /\ r.user_id = user_id)}

\* the UPDATE without its user_id condition: C2 does not survive it
update_any_owner(rows, field, value, id, user_id) ==
    {IF r.id = id THEN [r EXCEPT ![field] = value] ELSE r : r \in rows}

\* the UPDATE without its id condition: C12 does not survive it
update_every_row(rows, field, value, id, user_id) ==
    {IF r.user_id = user_id THEN [r EXCEPT ![field] = value] ELSE r : r \in rows}

\* UPDATE {table} SET {field} = ? WHERE id = ? AND user_id = ?
update_where(rows, field, value, id, user_id) ==
    {IF r.id = id /\ r.user_id = user_id THEN [r EXCEPT ![field] = value] ELSE r
        : r \in rows}

\* the two queries of show_edit_entries and show_delete_entries, expenses first
period_entries(db, user_id, start_date, end_date) ==
    get_entries_for_period(db, start_date, end_date, user_id, "expenses")
        \o get_entries_for_period(db, start_date, end_date, user_id, "incomes")

\* the months of the menu read every row of both tables: C33 does not
\* survive it
months_of_all_users(db, user_id) == {r.date \div 100 : r \in db.expenses \cup db.incomes}

\* SELECT DISTINCT substr(date, 1, 7) ... WHERE user_id = ? UNION ...: a month
\* YYYY-MM is kept as the number YYYYMM
get_available_months(db, user_id) ==
    {r.date \div 100 : r \in {x \in db.expenses \cup db.incomes : x.user_id = user_id}}

\* ORDER BY month DESC, ORDER BY year DESC: the list of a set of periods
RECURSIVE newest_first(_)
newest_first(S) ==
    IF S = {} THEN <<>>
    ELSE LET m == CHOOSE x \in S : \A y \in S : y <= x
         IN <<m>> \o newest_first(S \ {m})

\* SELECT DISTINCT substr(date, 1, 4) ... WHERE user_id = ? UNION ...
get_available_years(db, user_id) ==
    {r.date \div 10000 : r \in {x \in db.expenses \cup db.incomes : x.user_id = user_id}}

\* value LIKE %term%, for the terms the model searches for
like(value, term) ==
    CASE term = "Home" -> value = "Home"
      [] term = "Salary" -> value = "Salary"
      [] term = "o" -> value \in {"Home", "Incomes", "Other"}
      [] OTHER -> FALSE

SearchTerms == {"Home", "Salary", "o"}

\* WHERE user_id = ? AND (category LIKE ? OR subcategory LIKE ?)
search_rows(rows, user_id, term) ==
    OrderRows({r \in rows : r.user_id = user_id
                   /\ (like(r.category, term) \/ like(r.subcategory, term))})

\* /search <term>: the rows found in both tables
search_results(db, user_id, term) ==
    [expenses |-> search_rows(db.expenses, user_id, term),
     incomes |-> search_rows(db.incomes, user_id, term)]

search_command(u, term, ud, db) ==
    LET found == search_results(db, u, term)
    IN IF found.expenses = <<>> /\ found.incomes = <<>>
       THEN R(ud, db, NONE, <<"no_results">>)
       ELSE R(ud, db, NONE, <<"search_results">>)

(***************************************************************************)
(* The summary flow                                                        *)
(***************************************************************************)
summary_command(ud, db) == R(EmptyDict, db, "SUMMARY_PERIOD", <<"choose_period">>)

RECURSIVE SumAmounts(_)
SumAmounts(S) ==
    IF S = {} THEN 0
    ELSE LET r == CHOOSE x \in S : TRUE IN r.amount.v + SumAmounts(S \ {r})

\* the rows grouped by category alone: C18 does not survive it
group_by_category(rows, user_id, start_date, end_date) ==
    LET mine == select_period(rows, user_id, start_date, end_date)
    IN {[category |-> c,
         subcategory |-> (CHOOSE r \in mine : r.category = c).subcategory,
         total |-> SumAmounts({r \in mine : r.category = c}),
         count |-> Cardinality({r \in mine : r.category = c})]
            : c \in {r.category : r \in mine}}

\* SELECT category, subcategory, SUM(amount), COUNT(*) FROM {table}
\* WHERE user_id = ? AND date >= ? AND date <= ? GROUP BY category, subcategory
group_totals(rows, user_id, start_date, end_date) ==
    LET mine == select_period(rows, user_id, start_date, end_date)
    IN {[category |-> k[1], subcategory |-> k[2],
         total |-> SumAmounts({r \in mine : r.category = k[1] /\ r.subcategory = k[2]}),
         count |-> Cardinality({r \in mine : r.category = k[1] /\ r.subcategory = k[2]})]
            : k \in {<<r.category, r.subcategory>> : r \in mine}}

RECURSIVE SumTotals(_)
SumTotals(G) ==
    IF G = {} THEN 0
    ELSE LET g == CHOOSE x \in G : TRUE IN g.total + SumTotals(G \ {g})

\* the figures of the summary message: the groups of both tables, the two
\* grand totals and the balance
summary_figures(db, user_id, start_date, end_date) ==
    LET expense_totals == group_totals(db.expenses, user_id, start_date, end_date)
        income_totals == group_totals(db.incomes, user_id, start_date, end_date)
    IN [expense_totals |-> expense_totals,
        income_totals |-> income_totals,
        expense_grand_total |-> SumTotals(expense_totals),
        income_grand_total |-> SumTotals(income_totals),
        balance |-> SumTotals(income_totals) - SumTotals(expense_totals)]

\* generate_and_send_stats: the groups of the period and the all-time count
\* and sum of each table (SELECT COUNT(*), SUM(amount) ... WHERE user_id = ?)
stats_figures(db, user_id, start_date, end_date) ==
    [expense_categories |-> group_totals(db.expenses, user_id, start_date, end_date),
     income_categories |-> group_totals(db.incomes, user_id, start_date, end_date),
     expense_alltime |->
        [total_count |-> Cardinality({r \in db.expenses : r.user_id = user_id}),
         total_amount |-> SumAmounts({r \in db.expenses : r.user_id = user_id})],
     income_alltime |->
        [total_count |-> Cardinality({r \in db.incomes : r.user_id = user_id}),
         total_amount |-> SumAmounts({r \in db.incomes : r.user_id = user_id})]]

\* the rows an expense or income report is built from
report_entries(db, user_id, start_date, end_date, table) ==
    OrderRows({r \in TableOf(db, table) :
                  r.user_id = user_id /\ r.date >= start_date /\ r.date <= end_date})

\* the date texts of the model split at their separators: the pattern the
\* text has and the numbers between the separators
date_fields(t) ==
    CASE t = "01/11/26" -> [form |-> "DD/MM/YY", d |-> 1, m |-> 11, y |-> 26]
      [] t = "31/02/26" -> [form |-> "DD/MM/YY", d |-> 31, m |-> 2, y |-> 26]
      [] t = "29/02/24" -> [form |-> "DD/MM/YY", d |-> 29, m |-> 2, y |-> 24]
      [] t = "29/02/26" -> [form |-> "DD/MM/YY", d |-> 29, m |-> 2, y |-> 26]
      [] t = "01/13/26" -> [form |-> "DD/MM/YY", d |-> 1, m |-> 13, y |-> 26]
      [] t = "1/11" -> [form |-> "DD/MM", d |-> 1, m |-> 11, y |-> 0]
      [] t = "31/02" -> [form |-> "DD/MM", d |-> 31, m |-> 2, y |-> 0]
      [] t = "01/11/2026" -> [form |-> "DD/MM/YYYY", d |-> 1, m |-> 11, y |-> 2026]
      [] t = "31/04/2026" -> [form |-> "DD/MM/YYYY", d |-> 31, m |-> 4, y |-> 2026]
      [] t = "2026-11-01" -> [form |-> "YYYY-MM-DD", d |-> 1, m |-> 11, y |-> 2026]
      [] t = "2026-02-31" -> [form |-> "YYYY-MM-DD", d |-> 31, m |-> 2, y |-> 2026]
      [] OTHER -> [form |-> "none", d |-> 0, m |-> 0, y |-> 0]

\* the last day of a month of the calendar
last_day(year, month) ==
    CASE month \in {1, 3, 5, 7, 8, 10, 12} -> 31
      [] month \in {4, 6, 9, 11} -> 30
      [] OTHER -> IF year % 4 = 0 /\ (year % 100 # 0 \/ year % 400 = 0) THEN 29 ELSE 28

\* a day number up to 31 taken in any month: C21 does not survive it
any_day_number(year, month, day) == month \in 1..12 /\ day \in 1..31

\* datetime(year, month, day) exists; strptime raises ValueError otherwise
is_date(year, month, day) ==
    year \in 1..9999 /\ month \in 1..12 /\ day \in 1..last_day(year, month)

\* strftime("%Y-%m-%d") of a date, as the number YYYYMMDD
strftime(year, month, day) == year * 10000 + month * 100 + day

\* datetime.strptime(text, "%d/%m/%y").strftime("%Y-%m-%d"): a two-digit
\* year below 69 is of this century
strptime_dmy(t) ==
    LET f == date_fields(t)
        year == IF f.y < 69 THEN 2000 + f.y ELSE 1900 + f.y
    IN IF f.form # "DD/MM/YY" THEN ValueError
       ELSE IF ~is_date(year, f.m, f.d) THEN ValueError
       ELSE Num(strftime(year, f.m, f.d))

\* the summary of a period, from the two grouped queries to the reply
summary_for_range(u, ud, db, start_date, end_date) ==
    LET f == summary_figures(db, u, start_date, end_date)
    IN IF f.expense_totals = {} /\ f.income_totals = {}
       THEN R(ud, db, END, <<"no_records">>)
       ELSE R(ud, db, END, <<"summary">>)

\* the period is "today"
generate_and_send_summary(u, ud, db) == summary_for_range(u, ud, db, Today, Today)

\* format_month_for_display, for the months of the model
format_month_for_display(m) ==
    CASE m = 202611 -> "November 2026"
      [] m = 202610 -> "October 2026"
      [] m = 202512 -> "December 2025"
      [] OTHER -> "another month"

get_month_date_range(m) ==
    [start_date |-> m * 100 + 1, end_date |-> m * 100 + last_day(m \div 100, m % 100)]

get_year_date_range(y) == [start_date |-> y * 10000 + 101, end_date |-> y * 10000 + 1231]

\* {format_month_for_display(m): m for m in available_months}
month_mapping(months) ==
    [label \in {format_month_for_display(m) : m \in months} |->
        CHOOSE m \in months : format_month_for_display(m) = label]

\* the buttons of the month menu: the labels of the twelve newest months
month_keyboard(db, u) ==
    LET available_months == newest_first(get_available_months(db, u))
        shown == IF Len(available_months) < 12 THEN Len(available_months) ELSE 12
    IN [i \in 1..shown |-> format_month_for_display(available_months[i])]

\* the buttons of the year menu
year_keyboard(db, u) == newest_first(get_available_years(db, u))

handle_summary_period(u, t, ud, db) ==
    IF contains(t, "Cancel") THEN R(ud, db, END, <<"summary_cancelled">>)
    ELSE IF contains(t, "Today") THEN generate_and_send_summary(u, ud, db)
    ELSE IF contains(t, "Specific Day") THEN R(ud, db, "SUMMARY_DAY", <<"enter_date">>)
    ELSE IF contains(t, "Month")
    THEN IF get_available_months(db, u) = {} THEN R(ud, db, END, <<"no_data">>)
         ELSE R(Put(ud, "summary_month_mapping", month_mapping(get_available_months(db, u))),
                db, "SUMMARY_MONTH", <<"select_month">>)
    ELSE IF contains(t, "Year")
    THEN IF get_available_years(db, u) = {} THEN R(ud, db, END, <<"no_data">>)
         ELSE R(ud, db, "SUMMARY_YEAR", <<"select_year">>)
    ELSE R(ud, db, END, <<"invalid_option">>)

handle_summary_month(u, t, ud, db) ==
    LET mapping == Get(ud, "summary_month_mapping", EmptyDict)
    IN IF contains(t, "Cancel")
       THEN R(Pop(ud, {"summary_month_mapping"}), db, END, <<"summary_cancelled">>)
       ELSE IF ~Has(mapping, t) THEN R(ud, db, END, <<"invalid_month">>)
       ELSE LET range == get_month_date_range(mapping[t])
            IN summary_for_range(u, Pop(ud, {"summary_month_mapping"}), db,
                                 range.start_date, range.end_date)

handle_summary_year(u, t, ud, db) ==
    IF contains(t, "Cancel") THEN R(ud, db, END, <<"summary_cancelled">>)
    ELSE IF ~isdigit(t) \/ len(t) # 4 THEN R(ud, db, END, <<"invalid_year">>)
    ELSE LET range == get_year_date_range(int(t).v)
         IN summary_for_range(u, ud, db, range.start_date, range.end_date)

\* the three patterns of handle_summary_day, then strptime on the date built
handle_summary_day(u, t, ud, db) ==
    LET f == date_fields(t)
        year == IF f.form = "DD/MM" THEN Today \div 10000 ELSE f.y
    IN IF f.form \notin {"DD/MM", "DD/MM/YYYY", "YYYY-MM-DD"}
       THEN R(ud, db, "SUMMARY_DAY", <<"invalid_date_format">>)
       ELSE IF ~is_date(year, f.m, f.d)
       THEN R(ud, db, "SUMMARY_DAY", <<"invalid_date">>)
       ELSE summary_for_range(u, ud, db, strftime(year, f.m, f.d),
                              strftime(year, f.m, f.d))

(***************************************************************************)
(* The expense view flow                                                   *)
(***************************************************************************)
expense_command(ud, db) ==
    R(Put(EmptyDict, "viewing_type", "expense"), db, "EXPENSE_PERIOD", <<"choose_period">>)

show_entries_by_period(u, ud, db, entry_type, start_date, end_date) ==
    LET table == IF entry_type = "expense" THEN "expenses" ELSE "incomes"
        entries == get_entries_for_period(db, start_date, end_date, u, table)
    IN IF entries = <<>> THEN R(ud, db, END, <<"no_entries">>)
       ELSE R(ud, db, END, <<"entries">>)

handle_expense_period(u, t, ud, db) ==
    IF contains(t, "Cancel") THEN R(ud, db, END, <<"cancelled">>)
    ELSE IF contains(t, "Today") THEN show_entries_by_period(u, ud, db, "expense", Today, Today)
    ELSE IF contains(t, "Specific Day") THEN R(ud, db, "EXPENSE_DAY", <<"enter_date">>)
    ELSE IF contains(t, "Month")
    THEN IF get_available_months(db, u) = {} THEN R(ud, db, END, <<"no_data">>)
         ELSE R(Put(ud, "month_mapping", month_mapping(get_available_months(db, u))),
                db, "EXPENSE_MONTH", <<"select_month">>)
    ELSE IF contains(t, "Year")
    THEN IF get_available_years(db, u) = {} THEN R(ud, db, END, <<"no_data">>)
         ELSE R(ud, db, "EXPENSE_YEAR", <<"select_year">>)
    ELSE R(ud, db, END, <<>>)

handle_expense_month(u, t, ud, db) ==
    LET mapping == Get(ud, "month_mapping", EmptyDict)
    IN IF contains(t, "Cancel")
       THEN R(Pop(ud, {"month_mapping"}), db, END, <<"cancelled">>)
       ELSE IF ~Has(mapping, t) THEN R(ud, db, END, <<"invalid_month">>)
       ELSE LET range == get_month_date_range(mapping[t])
            IN show_entries_by_period(u, Pop(ud, {"month_mapping"}), db, "expense",
                                      range.start_date, range.end_date)

handle_expense_year(u, t, ud, db) ==
    IF contains(t, "Cancel") THEN R(ud, db, END, <<"cancelled">>)
    ELSE IF ~isdigit(t) \/ len(t) # 4 THEN R(ud, db, END, <<"invalid_year">>)
    ELSE LET range == get_year_date_range(int(t).v)
         IN show_entries_by_period(u, ud, db, "expense", range.start_date, range.end_date)

handle_expense_day(u, t, ud, db) ==
    LET date_str == strptime_dmy(t)
    IN IF date_str.kind = "err" THEN R(ud, db, "EXPENSE_DAY", <<"invalid_date_format">>)
       ELSE show_entries_by_period(u, ud, db, "expense", date_str.v, date_str.v)

(***************************************************************************)
(* The delete flow                                                         *)
(***************************************************************************)
delete_expense(ud, db) ==
    R(Put(EmptyDict, "delete_action", "delete"), db, "DELETE_PERIOD", <<"choose_period">>)

\* the listed rows deleted when the list is shown: C32 does not survive it
delete_at_listing(u, ud, db, period_type, period_value, start_date, end_date) ==
    LET entries == period_entries(db, u, start_date, end_date)
        listed == {entries[i] : i \in DOMAIN entries}
    IN IF entries = <<>> THEN R(ud, db, END, <<"no_entries">>)
       ELSE R(Put(ud, "delete_entries", entries),
              [db EXCEPT !.expenses = @ \ listed, !.incomes = @ \ listed],
              RAISE, <<"delete_list">>)

\* show_delete_entries for a period with its date range; the last line
\* returns DELETE_NUMBER, an unbound name
show_delete_entries_for(u, ud, db, period_type, period_value, start_date, end_date) ==
    LET entries == period_entries(db, u, start_date, end_date)
    IN IF entries = <<>> THEN R(ud, db, END, <<"no_entries">>)
       ELSE R(Put(Put(Put(ud, "delete_entries", entries), "period_type", period_type),
                  "period_value", period_value),
              db, RAISE, <<"delete_list">>)

\* period_type "today"
show_delete_entries(u, ud, db) ==
    show_delete_entries_for(u, ud, db, "today", "None", Today, Today)

handle_delete_day(u, t, ud, db) ==
    LET date_str == strptime_dmy(t)
    IN IF date_str.kind = "err" THEN R(ud, db, "DELETE_DAY", <<"invalid_date_format">>)
       ELSE show_delete_entries_for(u, ud, db, "day", date_str.v, date_str.v, date_str.v)

handle_delete_period(u, t, ud, db) ==
    IF contains(t, "Cancel") THEN R(ud, db, END, <<"cancelled">>)
    ELSE IF contains(t, "Today") THEN show_delete_entries(u, ud, db)
    ELSE IF contains(t, "Specific Day") THEN R(ud, db, "DELETE_DAY", <<"enter_date">>)
    ELSE IF contains(t, "Month") THEN R(ud, db, "DELETE_MONTH", <<"select_month">>)
    ELSE IF contains(t, "Year") THEN R(ud, db, "DELETE_YEAR", <<"select_year">>)
    ELSE R(ud, db, END, <<>>)

\* the finally clause of handle_delete_number
delete_cleanup(ud) ==
    Pop(ud, {"delete_entries", "period_type", "period_value", "target_table",
             "entry_type", "delete_action"})

\* every selected entry looked for in the expenses table: C31 does not
\* survive it
table_always_expenses(row) == "expenses"

\* is_income = row['category'] == 'Incomes'; table = "incomes" if is_income
\* else "expenses"
table_of_entry(row) == IF row.category = "Incomes" THEN "incomes" ELSE "expenses"

\* the fields of the selected row that the confirmation of the deletion shows
delete_confirmation(row) ==
    [category |-> row.category, subcategory |-> row.subcategory,
     amount |-> row.amount, description |-> row.description]

handle_delete_number(u, t, ud, db, stored) ==
    LET choice == int(t)
        entries == Get(ud, "delete_entries", <<>>)
    IN IF choice.kind = "err"
       \* except ValueError: the reply, then return DELETE_NUMBER raises NameError
       THEN R(delete_cleanup(ud), db, RAISE, <<"enter_valid_number">>)
       ELSE IF entries = <<>> \/ choice.v < 1 \/ choice.v > Len(entries)
       \* return DELETE_NUMBER raises NameError inside try: except Exception
       THEN R(delete_cleanup(ud), db, END, <<"invalid_choice_range", "error">>)
       ELSE LET row == entries[choice.v]
                table == table_of_entry(row)
                written == WithTable(db, table, delete_where(TableOf(db, table), row.id, u))
            IN R(delete_cleanup(ud), get_db_connection(db, written, stored), END,
                 \* a DELETE that raised: except Exception
                 IF stored THEN <<"deleted">> ELSE <<"error">>)

(***************************************************************************)
(* The edit flow                                                           *)
(***************************************************************************)
edit_expense(ud, db) ==
    R(Put(EmptyDict, "edit_action", "edit"), db, "EDIT_PERIOD", <<"choose_period">>)

\* show_edit_entries for a period with its date range; the last line
\* returns EDIT_NUMBER, an unbound name
show_edit_entries_for(u, ud, db, period_type, period_value, start_date, end_date) ==
    LET entries == period_entries(db, u, start_date, end_date)
    IN IF entries = <<>> THEN R(ud, db, END, <<"no_entries">>)
       ELSE R(Put(Put(Put(ud, "edit_entries", entries), "period_type", period_type),
                  "period_value", period_value),
              db, RAISE, <<"edit_list">>)

\* period_type "today"
show_edit_entries(u, ud, db) ==
    show_edit_entries_for(u, ud, db, "today", "None", Today, Today)

handle_edit_day(u, t, ud, db) ==
    LET date_str == strptime_dmy(t)
    IN IF date_str.kind = "err" THEN R(ud, db, "EDIT_DAY", <<"invalid_date_format">>)
       ELSE show_edit_entries_for(u, ud, db, "day", date_str.v, date_str.v, date_str.v)

handle_edit_period(u, t, ud, db) ==
    IF contains(t, "Cancel") THEN R(ud, db, END, <<"cancelled">>)
    ELSE IF contains(t, "Today") THEN show_edit_entries(u, ud, db)
    ELSE IF contains(t, "Specific Day") THEN R(ud, db, "EDIT_DAY", <<"enter_date">>)
    ELSE IF contains(t, "Month") THEN R(ud, db, "EDIT_MONTH", <<"select_month">>)
    ELSE IF contains(t, "Year") THEN R(ud, db, "EDIT_YEAR", <<"select_year">>)
    ELSE R(ud, db, END, <<>>)

handle_edit_number(u, t, ud, db) ==
    LET choice == int(t)
        entries == Get(ud, "edit_entries", <<>>)
        table == Get(ud, "target_table", "expenses")
        entry_type == Get(ud, "entry_type", "Expense")
    IN IF choice.kind = "err"
       \* except ValueError: the reply, then return EDIT_NUMBER raises NameError
       THEN R(ud, db, RAISE, <<"enter_valid_number">>)
       ELSE IF entries = <<>> \/ choice.v < 1 \/ choice.v > Len(entries)
       THEN R(ud, db, NONE, <<"invalid_choice_range">>)
       ELSE LET row == entries[choice.v]
                data == [category |-> row.category, subcategory |-> row.subcategory,
                         amount |-> row.amount, description |-> row.description]
                ud1 == Put(Put(Put(Put(ud, "edit_entry_id", row.id),
                                   "edit_entry_table", table),
                               "edit_entry_type", entry_type),
                           "edit_entry_data", data)
            IN R(Pop(ud1, {"edit_entries"}), db, "EDIT_FIELD", <<"what_to_edit">>)

\* the except clause of handle_edit_field_choice
field_choice_cleanup(ud) ==
    Pop(ud, {"edit_entry_id", "edit_entry_table", "edit_entry_data", "editing_field"})

handle_edit_field_choice(t, ud, db) ==
    IF lower(t) \in {"amount", "description"}
    THEN LET ud1 == Put(ud, "editing_field", lower(t))
         IN IF ~Has(ud1, "edit_entry_data")
            \* KeyError inside try: except Exception
            THEN R(field_choice_cleanup(ud1), db, END, <<"error">>)
            \* the reply, then return EDIT_VALUE raises NameError inside try
            ELSE R(field_choice_cleanup(ud1), db, END, <<"current_value", "error">>)
    ELSE R(ud, db, "EDIT_FIELD", <<"amount_or_description">>)

\* the clean-up after the confirmation and in the first except Exception clause
edit_cleanup(ud) ==
    Pop(ud, {"edit_entries", "edit_entry_id", "edit_entry_table", "edit_entry_type",
             "edit_entry_data", "editing_field"})

\* a finally clause that leaves the field being edited in the session
finally_keeping_field(ud) ==
    Pop(ud, {"edit_entry_id", "edit_entry_table", "edit_entry_type",
             "edit_entry_data", "edit_action"})

\* the finally clause of handle_edit_value
edit_finally(ud) ==
    Pop(ud, {"edit_entry_id", "edit_entry_table", "edit_entry_type",
             "edit_entry_data", "editing_field", "edit_action"})

handle_edit_value(u, t, ud, db, stored) ==
    LET field == Get(ud, "editing_field", "None")
        x == float(t)
        new_value == IF field = "amount" THEN x ELSE t
    IN IF field = "amount" /\ x.kind = "err"
       \* except ValueError: the reply, then return EDIT_VALUE raises NameError
       THEN R(edit_finally(ud), db, RAISE, <<"amount_not_number">>)
       ELSE IF field = "amount" /\ ~amount_valid(x)
       \* return EDIT_VALUE raises NameError inside try: except Exception
       THEN R(edit_finally(edit_cleanup(ud)), db, END,
              <<IF ~isfinite(x) THEN "amount_invalid"
                ELSE IF le_zero(x) THEN "amount_not_positive"
                ELSE "amount_too_large", "error">>)
       ELSE IF ~Has(ud, "edit_entry_id") \/ ~Has(ud, "edit_entry_table")
                \/ ~Has(ud, "edit_entry_type")
       \* KeyError inside try: except Exception
       THEN R(edit_finally(edit_cleanup(ud)), db, END, <<"error">>)
       ELSE LET table == ud["edit_entry_table"]
                written == IF field \in {"amount", "description"}
                           THEN WithTable(db, table,
                                    update_where(TableOf(db, table), field, new_value,
                                                 ud["edit_entry_id"], u))
                           ELSE db
                \* the UPDATE raised, or edit_entry_data is missing (KeyError
                \* inside the with block, or at the confirmation for a field
                \* that is neither): except Exception
                ok == stored /\ Has(ud, "edit_entry_data")
            IN R(edit_finally(edit_cleanup(ud)), get_db_connection(db, written, ok), END,
                 IF ok THEN <<"updated">> ELSE <<"error">>)

(***************************************************************************)
(* Text outside every conversation                                         *)
(***************************************************************************)
handle_edit_or_delete_type(u, t, ud, db) ==
    LET is_delete == Get(ud, "delete_action", "None") = "delete"
        data_key == IF is_delete THEN "delete_entries" ELSE "edit_entries"
        table == IF contains(t, "Expenses") THEN "expenses" ELSE "incomes"
        entry_type == IF contains(t, "Expenses") THEN "Expense" ELSE "Income"
        entries == get_entries_for_date(db, Today, u, table)
    IN IF contains(t, "Cancel") THEN R(ud, db, NONE, <<"cancelled">>)
       ELSE IF ~contains(t, "Expenses") /\ ~contains(t, "Incomes")
       THEN R(ud, db, NONE, <<"invalid_choice">>)
       ELSE IF entries = <<>> THEN R(ud, db, NONE, <<"none_recorded_today">>)
       ELSE R(Put(Put(Put(ud, "target_table", table), "entry_type", entry_type),
                  data_key, entries),
              db, NONE, <<"numbered_list">>)

\* what a nested handler returns is dropped; what it raises leaves the handler
Nested(r) == [r EXCEPT !.ret = IF r.ret = RAISE THEN RAISE ELSE NONE]

handle_text_input(u, t, ud, db, stored) ==
    IF (Truthy(ud, "delete_action") \/ Truthy(ud, "edit_action"))
         /\ (contains(t, "Expenses") \/ contains(t, "Incomes") \/ contains(t, "Cancel"))
    THEN Nested(handle_edit_or_delete_type(u, t, ud, db))
    ELSE IF Truthy(ud, "editing_field")
    THEN Nested(handle_edit_value(u, t, ud, db, stored))
    ELSE IF Truthy(ud, "edit_entry_data") /\ lower(t) \in {"amount", "description"}
    THEN Nested(handle_edit_field_choice(t, ud, db))
    ELSE IF Truthy(ud, "edit_entries") /\ isdigit(t)
    THEN Nested(handle_edit_number(u, t, ud, db))
    ELSE IF Truthy(ud, "delete_entries") /\ isdigit(t)
    THEN Nested(handle_delete_number(u, t, ud, db, stored))
    ELSE R(ud, db, NONE, <<>>)

(***************************************************************************)
(* The texts the user sends, by the handler that receives them             *)
(***************************************************************************)
AddTypeInputs == {"Expenses", "Income", "abc"}
CategoryInputs == {"Home", "Pets"}
SubcategoryInputs == {"Rent", "Other", "Salary"}
AmountInputs == {"0.01", "999999", "0", "-50", "inf", "nan", "1000000", "abc"}
DescriptionInputs == {"lunch"}
PeriodInputs == {"Today", "Cancel", "1", "abc"}
NumberInputs == {"0", "1", "2", "3", "abc"}
FreeInputs ==
    {"Expenses", "Incomes", "Cancel", "amount", "description", "lunch"}
        \cup NumberInputs \cup AmountInputs

(***************************************************************************)
(* The application: main() adds every handler to one group, so an update   *)
(* goes to the first handler, in the order of registration, that accepts   *)
(* it: conv_handler (add), summary_handler, edit_handler, delete_handler,  *)
(* then handle_text_input for text, and unknown_command for a command.     *)
(* A ConversationHandler accepts a text when the user has a state in it,   *)
(* /cancel when the user has a state in it, and its entry command when the *)
(* user has none.                                                          *)
(***************************************************************************)
Handlers == {"add", "summary", "expense", "edit", "delete"}

\* the keys of the states dict of each ConversationHandler of main()
States(h) ==
    CASE h = "add" -> {"ADD_TYPE", "CATEGORY", "SUBCATEGORY", "AMOUNT", "DESCRIPTION"}
      [] h = "summary" -> {"SUMMARY_PERIOD", "SUMMARY_MONTH", "SUMMARY_YEAR", "SUMMARY_DAY"}
      [] h = "expense" -> {"EXPENSE_PERIOD", "EXPENSE_MONTH", "EXPENSE_YEAR", "EXPENSE_DAY"}
      [] h = "edit" -> {"EDIT_PERIOD", "EDIT_MONTH", "EDIT_YEAR", "EDIT_DAY"}
      [] h = "delete" -> {"DELETE_PERIOD", "DELETE_MONTH", "DELETE_YEAR", "DELETE_DAY"}
      [] OTHER -> {}

FirstActive(c) ==
    IF c.add # Idle THEN "add"
    ELSE IF c.summary # Idle THEN "summary"
    ELSE IF c.expense # Idle THEN "expense"
    ELSE IF c.edit # Idle THEN "edit"
    ELSE IF c.delete # Idle THEN "delete"
    ELSE "none"

\* ConversationHandler._update_state: an exception or None keeps the state
NewState(old, ret) ==
    IF ret \in {RAISE, NONE} THEN old ELSE IF ret = END THEN Idle ELSE ret

\* the conversation states of a user after handler h returned r
After(c, h, r) == IF h = "none" THEN c ELSE [c EXCEPT ![h] = NewState(@, r.ret)]

\* one session shared by all users instead of context.user_data, which is
\* kept per user: C37 does not survive it
commit_shared_session(u, h, r) ==
    /\ expenses' = r.db.expenses
    /\ incomes' = r.db.incomes
    /\ seq' = r.db.seq
    /\ user_data' = [v \in Users |-> r.ud]
    /\ conv' = [conv EXCEPT ![u] = After(@, h, r)]

Commit(u, h, r) ==
    /\ expenses' = r.db.expenses
    /\ incomes' = r.db.incomes
    /\ seq' = r.db.seq
    /\ user_data' = [user_data EXCEPT ![u] = r.ud]
    /\ conv' = [conv EXCEPT ![u] = After(@, h, r)]

\* an INSERT succeeds only while the model has room for the row
Room == seq.expenses + seq.incomes < MaxRows
Stored == IF Room THEN {TRUE, FALSE} ELSE {FALSE}

Init ==
    /\ expenses = {}
    /\ incomes = {}
    /\ seq = [expenses |-> 0, incomes |-> 0]
    /\ user_data = [u \in Users |-> EmptyDict]
    /\ conv = [u \in Users |-> [h \in Handlers |-> Idle]]

Commands == {"/start", "/add", "/summary", "/expense", "/edit", "/delete", "/cancel"}

\* the conversation a command enters, and its entry handler
EntryOf(c) ==
    CASE c \in {"/start", "/add"} -> "add"
      [] c = "/summary" -> "summary"
      [] c = "/expense" -> "expense"
      [] c = "/edit" -> "edit"
      [] c = "/delete" -> "delete"

EntryHandler(c) ==
    CASE c = "/start" -> "start"
      [] c = "/add" -> "add_expense"
      [] c = "/summary" -> "summary_command"
      [] c = "/expense" -> "expense_command"
      [] c = "/edit" -> "edit_expense"
      [] c = "/delete" -> "delete_expense"

\* the handler registered for a state of a conversation
StateHandler(h, state) ==
    CASE state = "ADD_TYPE" -> "handle_add_type"
      [] state = "CATEGORY" -> "category"
      [] state = "SUBCATEGORY" -> "subcategory"
      [] state = "AMOUNT" -> "amount"
      [] state = "DESCRIPTION" -> "description"
      [] state = "SUMMARY_PERIOD" -> "handle_summary_period"
      [] state = "SUMMARY_MONTH" -> "handle_summary_month"
      [] state = "SUMMARY_YEAR" -> "handle_summary_year"
      [] state = "SUMMARY_DAY" -> "handle_summary_day"
      [] state = "EXPENSE_PERIOD" -> "handle_expense_period"
      [] state = "EXPENSE_DAY" -> "handle_expense_day"
      [] state = "EXPENSE_MONTH" -> "handle_expense_month"
      [] state = "EXPENSE_YEAR" -> "handle_expense_year"
      [] state = "EDIT_DAY" -> "handle_edit_day"
      [] state = "DELETE_DAY" -> "handle_delete_day"
      [] state = "EDIT_PERIOD" -> "handle_edit_period"
      [] state = "DELETE_PERIOD" -> "handle_delete_period"

\* the handler that takes event e of a user whose conversations are in c
Route(c, e) ==
    IF e = "/cancel"
    THEN IF FirstActive(c) # "none" THEN "cancel" ELSE "unknown_command"
    ELSE IF e \in Commands
    THEN IF c[EntryOf(e)] = Idle THEN EntryHandler(e) ELSE "unknown_command"
    ELSE IF FirstActive(c) # "none"
    THEN StateHandler(FirstActive(c), c[FirstActive(c)])
    ELSE "handle_text_input"

\* the conversation whose state the handler's return value updates
ConvOf(c, e) ==
    IF e = "/cancel" THEN FirstActive(c)
    ELSE IF e \in Commands
    THEN IF c[EntryOf(e)] = Idle THEN EntryOf(e) ELSE "none"
    ELSE FirstActive(c)

Run(name, u, t, ud, db, stored) ==
    CASE name = "start" -> start(ud, db)
      [] name = "add_expense" -> add_expense(ud, db)
      [] name = "summary_command" -> summary_command(ud, db)
      [] name = "edit_expense" -> edit_expense(ud, db)
      [] name = "delete_expense" -> delete_expense(ud, db)
      [] name = "cancel" -> cancel(ud, db)
      [] name = "unknown_command" -> unknown_command(ud, db)
      [] name = "handle_add_type" -> handle_add_type(t, ud, db)
      [] name = "category" -> category(t, ud, db)
      [] name = "subcategory" -> subcategory(t, ud, db)
      [] name = "amount" -> amount(u, t, ud, db, stored)
      [] name = "description" -> description(u, t, ud, db, stored)
      [] name = "handle_summary_period" -> handle_summary_period(u, t, ud, db)
      [] name = "handle_summary_month" -> handle_summary_month(u, t, ud, db)
      [] name = "handle_summary_year" -> handle_summary_year(u, t, ud, db)
      [] name = "handle_summary_day" -> handle_summary_day(u, t, ud, db)
      [] name = "expense_command" -> expense_command(ud, db)
      [] name = "handle_expense_period" -> handle_expense_period(u, t, ud, db)
      [] name = "handle_expense_day" -> handle_expense_day(u, t, ud, db)
      [] name = "handle_expense_month" -> handle_expense_month(u, t, ud, db)
      [] name = "handle_expense_year" -> handle_expense_year(u, t, ud, db)
      [] name = "handle_edit_day" -> handle_edit_day(u, t, ud, db)
      [] name = "handle_delete_day" -> handle_delete_day(u, t, ud, db)
      [] name = "handle_edit_period" -> handle_edit_period(u, t, ud, db)
      [] name = "handle_delete_period" -> handle_delete_period(u, t, ud, db)
      [] name = "handle_text_input" -> handle_text_input(u, t, ud, db, stored)

\* Application.process_update for event e of user u: the handler that takes
\* it and the conversation its return value updates
Taken(u, e, name) == Route(conv[u], e) = name

Handle(u, e, stored) ==
    Commit(u, ConvOf(conv[u], e),
           Run(Route(conv[u], e), u, e, user_data[u], DB, stored))

CmdStart(u) ==
    /\ Taken(u, "/start", "start")
    /\ Handle(u, "/start", FALSE)

CmdAdd(u) ==
    /\ Taken(u, "/add", "add_expense")
    /\ Handle(u, "/add", FALSE)

CmdSummary(u) ==
    /\ Taken(u, "/summary", "summary_command")
    /\ Handle(u, "/summary", FALSE)

CmdEdit(u) ==
    /\ Taken(u, "/edit", "edit_expense")
    /\ Handle(u, "/edit", FALSE)

CmdDelete(u) ==
    /\ Taken(u, "/delete", "delete_expense")
    /\ Handle(u, "/delete", FALSE)

CmdCancel(u) ==
    /\ Taken(u, "/cancel", "cancel")
    /\ Handle(u, "/cancel", FALSE)

CmdUnknown(u, c) ==
    /\ Taken(u, c, "unknown_command")
    /\ Handle(u, c, FALSE)

\* /search is a plain CommandHandler registered after the summary conversation:
\* no conversation accepts the command, so it always arrives
CmdSearch(u, term) ==
    /\ term \in SearchTerms
    /\ Commit(u, "none", search_command(u, term, user_data[u], DB))

TextAddType(u, t) ==
    /\ Taken(u, t, "handle_add_type")
    /\ Handle(u, t, FALSE)

TextCategory(u, t) ==
    /\ Taken(u, t, "category")
    /\ Handle(u, t, FALSE)

TextSubcategory(u, t) ==
    /\ Taken(u, t, "subcategory")
    /\ Handle(u, t, FALSE)

TextAmount(u, t) ==
    /\ Taken(u, t, "amount")
    /\ \E stored \in Stored : Handle(u, t, stored)

TextDescription(u, t) ==
    /\ Taken(u, t, "description")
    /\ \E stored \in Stored : Handle(u, t, stored)

TextSummaryPeriod(u, t) ==
    /\ Taken(u, t, "handle_summary_period")
    /\ Handle(u, t, FALSE)

TextSummaryMonth(u, t) ==
    /\ Taken(u, t, "handle_summary_month")
    /\ Handle(u, t, FALSE)

TextSummaryYear(u, t) ==
    /\ Taken(u, t, "handle_summary_year")
    /\ Handle(u, t, FALSE)

TextSummaryDay(u, t) ==
    /\ Taken(u, t, "handle_summary_day")
    /\ Handle(u, t, FALSE)

CmdExpense(u) ==
    /\ Taken(u, "/expense", "expense_command")
    /\ Handle(u, "/expense", FALSE)

TextExpensePeriod(u, t) ==
    /\ Taken(u, t, "handle_expense_period")
    /\ Handle(u, t, FALSE)

TextExpenseMonth(u, t) ==
    /\ Taken(u, t, "handle_expense_month")
    /\ Handle(u, t, FALSE)

TextExpenseYear(u, t) ==
    /\ Taken(u, t, "handle_expense_year")
    /\ Handle(u, t, FALSE)

TextExpenseDay(u, t) ==
    /\ Taken(u, t, "handle_expense_day")
    /\ Handle(u, t, FALSE)

TextEditDay(u, t) ==
    /\ Taken(u, t, "handle_edit_day")
    /\ Handle(u, t, FALSE)

TextDeleteDay(u, t) ==
    /\ Taken(u, t, "handle_delete_day")
    /\ Handle(u, t, FALSE)

TextEditPeriod(u, t) ==
    /\ Taken(u, t, "handle_edit_period")
    /\ Handle(u, t, FALSE)

TextDeletePeriod(u, t) ==
    /\ Taken(u, t, "handle_delete_period")
    /\ Handle(u, t, FALSE)

TextInput(u, t) ==
    /\ Taken(u, t, "handle_text_input")
    /\ \E stored \in BOOLEAN : Handle(u, t, stored)

\* the other user's add conversation, seen through the row it records
RecordInputs ==
    {<<"Home", "Other", "0.01", "N/A">>, <<"Incomes", "Salary", "999999", "N/A">>}

OtherUserRecords(u, e) ==
    /\ Room
    /\ LET s == save_expense(DB, e[1], e[2], float(e[3]), e[4], u, TRUE)
       IN /\ expenses' = s.db.expenses
          /\ incomes' = s.db.incomes
          /\ seq' = s.db.seq
    /\ UNCHANGED <<user_data, conv>>

Next ==
    \/ \E u \in Chatting :
        \/ CmdStart(u)
        \/ CmdAdd(u)
        \/ CmdSummary(u)
        \/ CmdEdit(u)
        \/ CmdDelete(u)
        \/ CmdCancel(u)
        \/ \E c \in Commands : CmdUnknown(u, c)
        \/ \E term \in SearchTerms : CmdSearch(u, term)
        \/ \E t \in AddTypeInputs : TextAddType(u, t)
        \/ \E t \in CategoryInputs : TextCategory(u, t)
        \/ \E t \in SubcategoryInputs : TextSubcategory(u, t)
        \/ \E t \in AmountInputs : TextAmount(u, t)
        \/ \E t \in DescriptionInputs : TextDescription(u, t)
        \/ \E t \in PeriodInputs : TextSummaryPeriod(u, t)
        \/ \E t \in PeriodInputs : TextEditPeriod(u, t)
        \/ \E t \in PeriodInputs : TextDeletePeriod(u, t)
        \/ \E t \in FreeInputs : TextInput(u, t)
    \/ \E u \in Recording : \E e \in RecordInputs : OtherUserRecords(u, e)

Spec == Init /\ [][Next]_vars

(***************************************************************************)
(* The handlers called on a context the caller prepared, as the scripts of *)
(* src/tests and src/REPORTS call the storage and the clean-up code: any   *)
(* user records entries through the add conversation, and the delete and   *)
(* edit handlers run on a session that names any rows of the ledger.       *)
(***************************************************************************)
AllRows == expenses \cup incomes

\* the candidate lists a session can hold
ListsOf(S) == {<<a>> : a \in S} \cup {<<a, b>> : <<a, b>> \in {p \in S \X S : p[1] # p[2]}}

Fresh(u) == user_data[u] = EmptyDict /\ FirstActive(conv[u]) = "none"

PrepareDelete(u) ==
    /\ Fresh(u)
    /\ \E entries \in ListsOf(AllRows) :
           user_data' = [user_data EXCEPT ![u] = Put(EmptyDict, "delete_entries", entries)]
    /\ UNCHANGED <<expenses, incomes, seq, conv>>

DirectDeleteNumber(u, t) ==
    /\ Has(user_data[u], "delete_entries")
    /\ \E stored \in BOOLEAN :
           Commit(u, "none", handle_delete_number(u, t, user_data[u], DB, stored))

\* the session handle_edit_number and handle_edit_field_choice build for the
\* chosen entry, up to the point where the name EDIT_VALUE is evaluated
EditSession(u, row, table, field) ==
    LET listed == Put(Put(edit_expense(EmptyDict, DB).ud, "edit_entries", <<row>>),
                      "target_table", table)
    IN Put(handle_edit_number(u, "1", listed, DB).ud, "editing_field", field)

PrepareEdit(u) ==
    /\ Fresh(u)
    /\ \E row \in AllRows : \E table \in {"expenses", "incomes"} :
           \E field \in {"amount", "description"} :
               user_data' = [user_data EXCEPT ![u] = EditSession(u, row, table, field)]
    /\ UNCHANGED <<expenses, incomes, seq, conv>>

DirectEditValue(u, t) ==
    /\ Has(user_data[u], "editing_field")
    /\ \E stored \in BOOLEAN :
           Commit(u, "none", handle_edit_value(u, t, user_data[u], DB, stored))

EditInputs == AmountInputs \cup {"lunch", "text of 201"}

NextDirect ==
    \/ \E u \in Chatting :
        \/ CmdAdd(u)
        \/ \E t \in {"Expenses"} : TextAddType(u, t)
        \/ \E t \in {"Home"} : TextCategory(u, t)
        \/ \E t \in {"Rent", "Other"} : TextSubcategory(u, t)
        \/ \E t \in AmountInputs : TextAmount(u, t)
        \/ \E t \in DescriptionInputs : TextDescription(u, t)
        \/ PrepareDelete(u)
        \/ \E t \in NumberInputs : DirectDeleteNumber(u, t)
        \/ PrepareEdit(u)
        \/ \E t \in EditInputs : DirectEditValue(u, t)
    \/ \E u \in Recording : \E e \in RecordInputs : OtherUserRecords(u, e)

SpecDirect == Init /\ [][NextDirect]_vars

(***************************************************************************)
(* The add conversation on its own: the entry commands, /cancel and the     *)
(* texts of its five steps, with the amounts and the descriptions of the   *)
(* walk-throughs.                                                          *)
(***************************************************************************)
AddFlowTypes == AddTypeInputs \cup {"Expense"}
AddFlowAmounts == {"1000.00", "2000.00", "0.01", "abc"}
AddFlowDescriptions == {"lunch", "text of 201"}

NextAdd ==
    \/ \E u \in Chatting :
        \/ CmdStart(u)
        \/ CmdAdd(u)
        \/ CmdCancel(u)
        \/ \E c \in {"/start", "/add", "/cancel"} : CmdUnknown(u, c)
        \/ \E t \in AddFlowTypes : TextAddType(u, t)
        \/ \E t \in CategoryInputs : TextCategory(u, t)
        \/ \E t \in SubcategoryInputs : TextSubcategory(u, t)
        \/ \E t \in AddFlowAmounts : TextAmount(u, t)
        \/ \E t \in AddFlowDescriptions : TextDescription(u, t)
    \/ \E u \in Recording : \E e \in RecordInputs : OtherUserRecords(u, e)

SpecAdd == Init /\ [][NextAdd]_vars

(***************************************************************************)
(* Two users in the add conversation at once. The Application is built     *)
(* without concurrent_updates, so the updates are handled one after the    *)
(* other, each handler to its end, in any order of the two users' events.  *)
(* The users send different texts, so a stored field tells who sent it.    *)
(***************************************************************************)
PairTypes(u) == IF u = 12345 THEN {"Expenses"} ELSE {"Income"}
PairSubcategories(u) == IF u = 12345 THEN {"Rent", "Other"} ELSE {"Salary", "Interest"}
PairAmounts(u) == IF u = 12345 THEN {"0.01", "abc"} ELSE {"999999", "abc"}
PairDescriptions(u) == IF u = 12345 THEN {"lunch"} ELSE {"text of 201"}

NextPair ==
    \E u \in Users :
        \/ CmdAdd(u)
        \/ CmdCancel(u)
        \/ \E t \in PairTypes(u) : TextAddType(u, t)
        \/ \E t \in {"Home"} : TextCategory(u, t)
        \/ \E t \in PairSubcategories(u) : TextSubcategory(u, t)
        \/ \E t \in PairAmounts(u) : TextAmount(u, t)
        \/ \E t \in PairDescriptions(u) : TextDescription(u, t)

SpecPair == Init /\ [][NextPair]_vars

(***************************************************************************)
(* The root revision, src/bot.py: one ledger without owners, the add       *)
(* conversation and the three date conversations /view_d, /delete_d and    *)
(* /edit_d, which share handle_date_input. Its handlers carry the names of *)
(* the source with the prefix root_.                                       *)
(***************************************************************************)
RootHandlers == <<"add", "view_d", "delete_d", "edit_d">>

\* the first conversation, in the order of registration, that is active
root_first_active(c) ==
    IF \A i \in 1..Len(RootHandlers) : c[RootHandlers[i]] = Idle THEN "none"
    ELSE RootHandlers[CHOOSE i \in 1..Len(RootHandlers) :
                          /\ c[RootHandlers[i]] # Idle
                          /\ \A j \in 1..(i - 1) : c[RootHandlers[j]] = Idle]

\* INSERT INTO {table} (date, time, category, subcategory, amount, description);
\* custom_date is 0 for None
root_save_expense(db, cat, sub, amt, desc, custom_date, stored) ==
    LET table == IF cat = "Incomes" THEN "incomes" ELSE "expenses"
        date_str == IF custom_date # 0 THEN custom_date ELSE Today
        row == [id |-> db.seq[table] + 1, date |-> date_str,
                time |-> db.seq.expenses + db.seq.incomes + 1,
                category |-> cat, subcategory |-> sub, amount |-> amt,
                description |-> desc]
        written == [WithTable(db, table, TableOf(db, table) \cup {row})
                        EXCEPT !.seq[table] = @ + 1]
    IN IF stored THEN [ok |-> TRUE, db |-> written] ELSE [ok |-> FALSE, db |-> db]

\* SELECT * FROM {table} WHERE date = ? ORDER BY time DESC
root_get_entries_for_date(db, target_date, table) ==
    OrderRows({r \in TableOf(db, table) : r.date = target_date})

\* the categories with subcategories and the pairs saved without description
RootCategories ==
    {"Home", "Car", "Lazer", "Travel", "Streaming", "Subscriptions", "Needs", "Health",
     "Others", "Incomes"}

ROOT_AUTO_DESCRIPTION ==
    [Home |-> Listed({"Rent", "Light", "Water", "Net"}),
     Car |-> Listed({"Fuel", "Insurance", "Via Verde"}),
     Streaming |-> All,
     Subscriptions |-> All,
     Incomes |-> Listed({"Refeicao", "Subsidio", "Bonus", "Salary"})]

root_should_skip_description(cat, sub) == skip_lookup(ROOT_AUTO_DESCRIPTION, cat, sub)

root_add_expense(ud, db) == R(ud, db, "CATEGORY", <<"select_category">>)

root_view_expenses_date(ud, db) ==
    R(Put(ud, "viewing_date", TRUE), db, "DATE_INPUT", <<"enter_date">>)

root_delete_expense_date(ud, db) ==
    R(Put(ud, "deleting_for_date", TRUE), db, "DATE_INPUT", <<"enter_date">>)

root_edit_expense_date(ud, db) ==
    R(Put(ud, "editing_for_date", TRUE), db, "DATE_INPUT", <<"enter_date">>)

root_cancel(ud, db) == R(EmptyDict, db, END, <<"operation_cancelled">>)

\* the session after the list of the date was shown for an edit or a delete
root_show_expenses_for_action(ud, db, target_date, user_data_key) ==
    LET listed == root_get_entries_for_date(db, target_date, "expenses")
    IN IF listed = <<>> THEN ud ELSE Put(ud, user_data_key, listed)

root_handle_date_input(t, ud, db) ==
    LET date_str == strptime_dmy(t)
        ud1 == Put(ud, "target_date", date_str.v)
    IN IF date_str.kind = "err" THEN R(ud, db, "DATE_INPUT", <<"invalid_date_format">>)
       ELSE IF Get(ud1, "adding_for_date", FALSE)
       THEN R(Pop(ud1, {"adding_for_date"}), db, "CATEGORY", <<"select_category">>)
       ELSE IF Get(ud1, "viewing_date", FALSE)
       THEN R(Pop(ud1, {"viewing_date"}), db, END, <<"expenses_of_date">>)
       ELSE IF Get(ud1, "deleting_for_date", FALSE)
       THEN R(root_show_expenses_for_action(Pop(ud1, {"deleting_for_date"}), db,
                                            date_str.v, "delete_expenses"),
              db, END, <<"delete_list">>)
       ELSE IF Get(ud1, "editing_for_date", FALSE)
       THEN R(root_show_expenses_for_action(Pop(ud1, {"editing_for_date"}), db,
                                            date_str.v, "edit_expenses"),
              db, END, <<"edit_list">>)
       ELSE R(ud1, db, END, <<>>)

root_category(t, ud, db) ==
    IF t \in RootCategories
    THEN R(Put(ud, "category", t), db, "SUBCATEGORY", <<"select_subcategory">>)
    ELSE R(Put(ud, "category", t), db, "AMOUNT", <<"enter_amount">>)

root_subcategory(t, ud, db) ==
    LET ud1 == Put(ud, "subcategory", t)
    IN IF ~Has(ud, "category") THEN R(ud1, db, RAISE, <<>>)
       ELSE IF root_should_skip_description(ud["category"], t)
       THEN R(Put(ud1, "skip_description", TRUE), db, "AMOUNT", <<"enter_amount">>)
       ELSE R(ud1, db, "AMOUNT", <<"enter_amount">>)

\* f"{category} - {subcategory}"
root_auto_description(cat, sub) ==
    IF cat = "Home" /\ sub = "Rent" THEN "Home - Rent" ELSE "category - subcategory"

\* save with the target_date of the session, reply, clear the session, END
root_save_and_end(ud, db, desc, stored) ==
    IF ~Has(ud, "category") \/ ~Has(ud, "amount") THEN R(ud, db, RAISE, <<>>)
    ELSE LET s == root_save_expense(db, ud["category"], Get(ud, "subcategory", "N/A"),
                                    ud["amount"], desc, Get(ud, "target_date", 0),
                                    stored)
         IN R(EmptyDict, s.db, END, IF s.ok THEN <<"saved">> ELSE <<"save_error">>)

root_amount(t, ud, db, stored) ==
    LET x == float(t)
        ud1 == Put(ud, "amount", x)
    IN IF x.kind = "err" THEN R(ud, db, "AMOUNT", <<"amount_not_number">>)
       ELSE IF ~amount_valid(x) THEN R(ud, db, "AMOUNT", <<"amount_invalid">>)
       ELSE IF Get(ud1, "skip_description", FALSE)
       THEN root_save_and_end(ud1, db,
                              root_auto_description(Get(ud1, "category", "None"),
                                                    Get(ud1, "subcategory", "N/A")),
                              stored)
       ELSE R(ud1, db, "DESCRIPTION", <<"enter_description">>)

root_description(t, ud, db, stored) ==
    root_save_and_end(Put(ud, "description", t), db, t, stored)

\* an update handled by conversation h of user u with result r
RootCommit(u, h, r) ==
    /\ expenses' = r.db.expenses
    /\ incomes' = r.db.incomes
    /\ seq' = r.db.seq
    /\ user_data' = [user_data EXCEPT ![u] = r.ud]
    /\ conv' = [conv EXCEPT ![u][h] = NewState(@, r.ret)]

\* a text is taken by the first active conversation, by the handler of its state
RootTaken(u, state) ==
    /\ root_first_active(conv[u]) # "none"
    /\ conv[u][root_first_active(conv[u])] = state

RootCmdAdd(u) ==
    /\ conv[u]["add"] = Idle
    /\ RootCommit(u, "add", root_add_expense(user_data[u], DB))

RootCmdViewD(u) ==
    /\ conv[u]["view_d"] = Idle
    /\ RootCommit(u, "view_d", root_view_expenses_date(user_data[u], DB))

RootCmdDeleteD(u) ==
    /\ conv[u]["delete_d"] = Idle
    /\ RootCommit(u, "delete_d", root_delete_expense_date(user_data[u], DB))

RootCmdEditD(u) ==
    /\ conv[u]["edit_d"] = Idle
    /\ RootCommit(u, "edit_d", root_edit_expense_date(user_data[u], DB))

RootCmdCancel(u) ==
    /\ root_first_active(conv[u]) # "none"
    /\ RootCommit(u, root_first_active(conv[u]), root_cancel(user_data[u], DB))

RootTextDate(u, t) ==
    /\ RootTaken(u, "DATE_INPUT")
    /\ RootCommit(u, root_first_active(conv[u]),
                  root_handle_date_input(t, user_data[u], DB))

RootTextCategory(u, t) ==
    /\ RootTaken(u, "CATEGORY")
    /\ RootCommit(u, root_first_active(conv[u]), root_category(t, user_data[u], DB))

RootTextSubcategory(u, t) ==
    /\ RootTaken(u, "SUBCATEGORY")
    /\ RootCommit(u, root_first_active(conv[u]), root_subcategory(t, user_data[u], DB))

RootTextAmount(u, t) ==
    /\ RootTaken(u, "AMOUNT")
    /\ \E stored \in Stored :
           RootCommit(u, root_first_active(conv[u]),
                      root_amount(t, user_data[u], DB, stored))

RootTextDescription(u, t) ==
    /\ RootTaken(u, "DESCRIPTION")
    /\ \E stored \in Stored :
           RootCommit(u, root_first_active(conv[u]),
                      root_description(t, user_data[u], DB, stored))

InitRoot ==
    /\ expenses = {}
    /\ incomes = {}
    /\ seq = [expenses |-> 0, incomes |-> 0]
    /\ user_data = [u \in Users |-> EmptyDict]
    /\ conv = [u \in Users |->
                  [h \in {RootHandlers[i] : i \in 1..Len(RootHandlers)} |-> Idle]]

RootDateInputs == {"29/02/24", "01/11/26", "abc"}

NextRoot ==
    \E u \in Chatting :
        \/ RootCmdAdd(u)
        \/ RootCmdViewD(u)
        \/ RootCmdDeleteD(u)
        \/ RootCmdEditD(u)
        \/ RootCmdCancel(u)
        \/ \E t \in RootDateInputs : RootTextDate(u, t)
        \/ \E t \in {"Home"} : RootTextCategory(u, t)
        \/ \E t \in {"Rent", "Other"} : RootTextSubcategory(u, t)
        \/ \E t \in {"0.01", "abc"} : RootTextAmount(u, t)
        \/ \E t \in {"lunch"} : RootTextDescription(u, t)

SpecRoot == InitRoot /\ [][NextRoot]_vars

(***************************************************************************)
(* The add conversation with the free-text category: names of 1, 2, 50 and *)
(* 51 characters, and a name of 1 character with white space around it.    *)
(***************************************************************************)
SubscriptionCategories == {"Subscriptions", "Home"}
SubscriptionNames == {"x", " x ", "ab", "name of 50", "name of 51"}

NextSubscription ==
    \E u \in Chatting :
        \/ CmdAdd(u)
        \/ CmdCancel(u)
        \/ \E t \in {"Expenses"} : TextAddType(u, t)
        \/ \E t \in SubscriptionCategories : TextCategory(u, t)
        \/ \E t \in SubscriptionNames : TextSubcategory(u, t)
        \/ \E t \in {"0.01", "abc"} : TextAmount(u, t)
        \/ \E t \in DescriptionInputs : TextDescription(u, t)

SpecSubscription == Init /\ [][NextSubscription]_vars

(***************************************************************************)
(* The summary conversation over a ledger that successive saves have       *)
(* filled: up to MaxEntries entries of both users, with pairs that share a *)
(* category and pairs that do not.                                         *)
(***************************************************************************)
LedgerPairs ==
    {<<"Home", "Rent">>, <<"Home", "Other">>, <<"Car", "Fuel">>, <<"Incomes", "Salary">>}
LedgerAmounts == {"500", "100"}
LedgerEntries ==
    [user_id : Users, category : {p[1] : p \in LedgerPairs},
     subcategory : {p[2] : p \in LedgerPairs}, amount : LedgerAmounts]

EmptyLedger == [expenses |-> {}, incomes |-> {}, seq |-> [expenses |-> 0, incomes |-> 0]]

\* the ledger after the entries of es have been saved in order
RECURSIVE Recorded(_)
Recorded(es) ==
    IF es = <<>> THEN EmptyLedger
    ELSE LET e == es[Len(es)]
         IN save_expense(Recorded(SubSeq(es, 1, Len(es) - 1)), e.category, e.subcategory,
                         float(e.amount),
                         IF should_skip_description(e.category, e.subcategory)
                         THEN Placeholder ELSE "lunch",
                         e.user_id, TRUE).db

InitLedger ==
    /\ \E n \in 0..MaxEntries :
         \E es \in [1..n -> {e \in LedgerEntries :
                                <<e.category, e.subcategory>> \in LedgerPairs}] :
             /\ expenses = Recorded(es).expenses
             /\ incomes = Recorded(es).incomes
             /\ seq = Recorded(es).seq
    /\ user_data = [u \in Users |-> EmptyDict]
    /\ conv = [u \in Users |-> [h \in Handlers |-> Idle]]

LedgerPeriodInputs == PeriodInputs \cup {"Month", "Year"}
MonthInputs == {"November 2026", "October 2026", "Cancel", "abc"}
YearInputs == {"2026", "1", "Cancel", "abc"}

NextLedger ==
    \E u \in Chatting :
        \/ CmdSummary(u)
        \/ CmdCancel(u)
        \/ \E t \in LedgerPeriodInputs : TextSummaryPeriod(u, t)
        \/ \E t \in MonthInputs : TextSummaryMonth(u, t)
        \/ \E t \in YearInputs : TextSummaryYear(u, t)

SpecLedger == InitLedger /\ [][NextLedger]_vars

(***************************************************************************)
(* The period menus over a ledger filled on several days: entries of both  *)
(* users saved in November 2026, October 2026 and December 2025, in the    *)
(* order of the days.                                                      *)
(***************************************************************************)
MenuDays == {20251231, 20261015, 20261101}
MenuEntries == [user_id : Users, category : {"Home", "Incomes"}, date : MenuDays]

\* the ledger after the entries of es have been saved, each on its day
RECURSIVE RecordedOn(_)
RecordedOn(es) ==
    IF es = <<>> THEN EmptyLedger
    ELSE LET e == es[Len(es)]
         IN InsertRowOn(RecordedOn(SubSeq(es, 1, Len(es) - 1)), save_table(e.category),
                        e.user_id, e.category, "Other", float("100"), "lunch", e.date)

InitMenus ==
    /\ \E n \in 0..MaxEntries :
         \E es \in [1..n -> MenuEntries] :
             /\ \A i \in 1..n : \A j \in 1..n : i < j => es[i].date <= es[j].date
             /\ expenses = RecordedOn(es).expenses
             /\ incomes = RecordedOn(es).incomes
             /\ seq = RecordedOn(es).seq
    /\ user_data = [u \in Users |-> EmptyDict]
    /\ conv = [u \in Users |-> [h \in Handlers |-> Idle]]

MenuPeriodInputs == {"Month", "Year", "Cancel"}
MenuMonthInputs == {"November 2026", "October 2026", "December 2025", "Cancel"}
MenuYearInputs == {"2026", "2025", "Cancel", "abc"}

NextMenus ==
    \E u \in Chatting :
        \/ CmdSummary(u)
        \/ CmdExpense(u)
        \/ CmdCancel(u)
        \/ \E t \in MenuPeriodInputs : TextSummaryPeriod(u, t)
        \/ \E t \in MenuMonthInputs : TextSummaryMonth(u, t)
        \/ \E t \in MenuYearInputs : TextSummaryYear(u, t)
        \/ \E t \in MenuPeriodInputs : TextExpensePeriod(u, t)
        \/ \E t \in MenuMonthInputs : TextExpenseMonth(u, t)
        \/ \E t \in MenuYearInputs : TextExpenseYear(u, t)

SpecMenus == InitMenus /\ [][NextMenus]_vars

(***************************************************************************)
(* The steps that ask for a specific day: one entry of today is recorded   *)
(* through the add conversation, and the summary, view, edit and delete    *)
(* conversations are taken to their date step.                             *)
(***************************************************************************)
DayPeriodInputs == {"Specific Day", "Cancel"}
DayInputs ==
    {"01/11/26", "31/02/26", "29/02/24", "29/02/26", "01/13/26", "1/11", "31/02",
     "01/11/2026", "31/04/2026", "2026-11-01", "2026-02-31", "abc"}

NextDay ==
    \E u \in Chatting :
        \/ CmdAdd(u)
        \/ \E t \in {"Expenses"} : TextAddType(u, t)
        \/ \E t \in {"Home"} : TextCategory(u, t)
        \/ \E t \in {"Rent"} : TextSubcategory(u, t)
        \/ \E t \in {"999999"} : TextAmount(u, t)
        \/ CmdSummary(u)
        \/ CmdExpense(u)
        \/ CmdEdit(u)
        \/ CmdDelete(u)
        \/ CmdCancel(u)
        \/ \E t \in DayPeriodInputs : TextSummaryPeriod(u, t)
        \/ \E t \in DayPeriodInputs : TextExpensePeriod(u, t)
        \/ \E t \in DayPeriodInputs : TextEditPeriod(u, t)
        \/ \E t \in DayPeriodInputs : TextDeletePeriod(u, t)
        \/ \E t \in DayInputs : TextSummaryDay(u, t)
        \/ \E t \in DayInputs : TextExpenseDay(u, t)
        \/ \E t \in DayInputs : TextEditDay(u, t)
        \/ \E t \in DayInputs : TextDeleteDay(u, t)

SpecDay == Init /\ [][NextDay]_vars

(***************************************************************************)
(* The claims                                                              *)
(***************************************************************************)
\* the rows of a ledger that user v owns
Owned(db, v) ==
    [expenses |-> {r \in db.expenses : r.user_id = v},
     incomes |-> {r \in db.incomes : r.user_id = v}]

\* C1 (tenant isolation on delete): no step taken for a user removes or
\* changes a row of another user, and that includes a delete selection whose
\* candidate list carries the other user's row: every row a recording user
\* owns before a step of the chatting user is in its table, unchanged, after it.
C1_DeleteIsolation ==
    [][\A v \in Recording :
          /\ Owned(DB, v).expenses \subseteq expenses'
          /\ Owned(DB, v).incomes \subseteq incomes']_vars

\* the user's candidate list starts with a row of another user that is in the
\* ledger, the selection "1" is confirmed as a deletion, and the row stays
C1_Witness ==
    \E u \in Chatting :
        /\ Has(user_data[u], "delete_entries")
        /\ user_data[u]["delete_entries"][1].user_id # u
        /\ user_data[u]["delete_entries"][1] \in AllRows
        /\ LET r == handle_delete_number(u, "1", user_data[u], DB, TRUE)
           IN r.replies = <<"deleted">> /\ r.db = DB

\* C2 (tenant isolation on update): an edit of the amount or the description
\* whose session names (table, id) of a row the acting user does not own
\* affects zero rows: the ledger after handle_edit_value is the ledger before.
C2_UpdateIsolation ==
    \A u \in Users : \A t \in EditInputs :
        (/\ Has(user_data[u], "editing_field")
         /\ Has(user_data[u], "edit_entry_id")
         /\ \A r \in TableOf(DB, user_data[u]["edit_entry_table"]) :
                r.id = user_data[u]["edit_entry_id"] => r.user_id # u)
        => handle_edit_value(u, t, user_data[u], DB, TRUE).db = DB

\* the session names a row of another user in the table that holds it, and
\* the edit is confirmed although nothing changed
C2_Witness ==
    \E u \in Chatting :
        /\ Has(user_data[u], "editing_field")
        /\ \E r \in TableOf(DB, user_data[u]["edit_entry_table"]) :
               r.id = user_data[u]["edit_entry_id"] /\ r.user_id # u
        /\ LET r == handle_edit_value(u, "999999", user_data[u], DB, TRUE)
           IN r.replies = <<"updated">> /\ r.db = DB

\* the ledger as it would be had no other user ever recorded anything
OwnLedger(u) == [expenses |-> Owned(DB, u).expenses, incomes |-> Owned(DB, u).incomes,
                 seq |-> seq]

\* everything a user can be shown of a ledger: the listings, the pickers, the
\* search results, the summary and statistics figures, the report rows
ReadsOf(db, u) ==
    [period |-> [tb \in {"expenses", "incomes"} |->
                    get_entries_for_period(db, Today, Today, u, tb)],
     date |-> [tb \in {"expenses", "incomes"} |-> get_entries_for_date(db, Today, u, tb)],
     candidates |-> period_entries(db, u, Today, Today),
     months |-> get_available_months(db, u),
     years |-> get_available_years(db, u),
     search |-> [term \in SearchTerms |-> search_results(db, u, term)],
     summary |-> summary_figures(db, u, Today, Today),
     stats |-> stats_figures(db, u, Today, Today),
     report |-> [tb \in {"expenses", "incomes"} |->
                    report_entries(db, u, Today, Today, tb)]]

\* the events whose handling reads the ledger
ReadEvents == {"Today", "Expenses", "Incomes"}

\* what user u is left with after event e, on ledger db: the replies and the
\* session (with the candidate list a listing caches)
Shown(u, e, db) ==
    LET r == Run(Route(conv[u], e), u, e, user_data[u], db, FALSE)
    IN [replies |-> r.replies, ud |-> r.ud]

\* C3 (read isolation): every read made for user U returns only U's rows, so
\* what U is shown does not depend on the rows of other users: each read of
\* the ledger equals the same read of the ledger without the other users'
\* rows, the handlers that list or summarise answer the same on both, and a
\* cached candidate list holds only U's rows.
C3_ReadIsolation ==
    \A u \in Users :
        /\ ReadsOf(DB, u) = ReadsOf(OwnLedger(u), u)
        /\ \A e \in ReadEvents : Shown(u, e, DB) = Shown(u, e, OwnLedger(u))
        /\ \A term \in SearchTerms :
               search_command(u, term, user_data[u], DB).replies
                   = search_command(u, term, user_data[u], OwnLedger(u)).replies
        /\ \A k \in {"delete_entries", "edit_entries"} :
               Has(user_data[u], k) =>
                   \A i \in 1..Len(user_data[u][k]) : user_data[u][k][i].user_id = u

\* both users have rows of today and the chatting user holds a candidate list
C3_Witness ==
    \E u \in Chatting : \E v \in Recording :
        /\ ReadsOf(DB, u).candidates # <<>>
        /\ ReadsOf(DB, v).candidates # <<>>
        /\ Has(user_data[u], "delete_entries")

\* the amounts of AmountInputs that are finite, above 0 and at most 999999
AcceptedAmounts == {"0.01", "999999"}

\* C4 (amount range): every row of both tables has a finite amount with
\* 0 < amount <= 999999 (in cents: 1..99999900); the amount step of the add
\* flow takes a text iff it is one of the accepted amounts (0, -50, inf, nan,
\* 1000000 and text that is no number are refused and change neither the
\* session nor the ledger), and so does the new-amount step of the edit flow.
C4_AmountRange ==
    /\ \A r \in AllRows :
           r.amount.kind = "num" /\ r.amount.v > 0 /\ r.amount.v <= 99999900
    /\ \A u \in Users : \A t \in AmountInputs :
        /\ conv[u].add = "AMOUNT" =>
               LET r == amount(u, t, user_data[u], DB, TRUE)
               IN IF t \in AcceptedAmounts
                  THEN /\ r.ret \in {"DESCRIPTION", END}
                       /\ r.ret = "DESCRIPTION" => r.ud["amount"] = float(t)
                       /\ r.ret = END =>
                              \E row \in (r.db.expenses \cup r.db.incomes) \ AllRows :
                                  row.amount = float(t)
                  ELSE r.ret = "AMOUNT" /\ r.db = DB /\ r.ud = user_data[u]
        /\ (Has(user_data[u], "editing_field")
                /\ user_data[u]["editing_field"] = "amount") =>
               LET r == handle_edit_value(u, t, user_data[u], DB, TRUE)
               IN IF t \in AcceptedAmounts
                  THEN r.replies = <<"updated">>
                  ELSE r.db = DB /\ "updated" \notin {r.replies[i] : i \in DOMAIN r.replies}

\* the chatting user's amounts at both limits have been accepted, and a user is at
\* the new-amount step of the edit flow
C4_Witness ==
    /\ \E r \in AllRows : r.user_id \in Chatting /\ r.amount.v = 1
    /\ \E r \in AllRows : r.user_id \in Chatting /\ r.amount.v = 99999900
    /\ \E u \in Users : Has(user_data[u], "editing_field")
                            /\ user_data[u]["editing_field"] = "amount"

\* C5 (ledger kind routing): an entry saved with category "Incomes" goes to
\* the incomes table and any other to the expenses table, so every incomes row
\* has category "Incomes", no expenses row has it, and the expense groups of
\* the summary and of the statistics hold no income row.
C5_KindRouting ==
    /\ \A r \in incomes : r.category = "Incomes"
    /\ \A r \in expenses : r.category # "Incomes"
    /\ \A u \in Users :
        /\ \A g \in summary_figures(DB, u, Today, Today).expense_totals :
               g.category # "Incomes"
        /\ \A g \in stats_figures(DB, u, Today, Today).expense_categories :
               g.category # "Incomes"
        /\ \A c \in {"Home", "Incomes", "Pets"} :
               LET s == save_expense(DB, c, "Other", Num(1), Placeholder, u, TRUE).db
               IN IF c = "Incomes"
                  THEN s.expenses = expenses /\ s.incomes # incomes
                  ELSE s.incomes = incomes /\ s.expenses # expenses

\* both tables hold a row of the chatting user
C5_Witness ==
    \E u \in Chatting :
        /\ \E r \in incomes : r.user_id = u
        /\ \E r \in expenses : r.user_id = u

Respond(u, e) == Run(Route(conv[u], e), u, e, user_data[u], DB, TRUE)
ConvAfter(u, e) == After(conv[u], ConvOf(conv[u], e), Respond(u, e))

TopLevel == {"/add", "/edit", "/delete", "/summary"}
PartialFields ==
    {"entry_type", "category", "subcategory", "skip_description", "amount", "description"}

\* C7 (session replacement): a top-level command sent while a flow of the
\* user is incomplete discards the partial fields of that flow: the session
\* the command leaves holds none of the fields of an entry being added.
C7_SessionReplaced ==
    \A u \in Chatting : \A c \in TopLevel :
        FirstActive(conv[u]) # "none" =>
            DOMAIN Respond(u, c).ud \cap PartialFields = {}

\* C8 (one active flow): a user has at most one conversation with a state.
C8_OneActiveFlow ==
    \A u \in Users : Cardinality({h \in Handlers : conv[u][h] # Idle}) <= 1

\* the bot waits for a text of the user: a conversation has a state, or the
\* session holds what the number, field or new-value step works on
Waiting(u) ==
    \/ FirstActive(conv[u]) # "none"
    \/ \E k \in {"delete_entries", "edit_entries", "edit_entry_id", "editing_field"} :
           Has(user_data[u], k)

\* C9 (cancel from every state): wherever the bot waits for the user's input
\* in a flow, /cancel ends the flow, leaves the session empty and the ledger
\* as it is.  Stated for the states with at most one conversation.
C9_CancelEverywhere ==
    \A u \in Chatting :
        (Waiting(u) /\ Cardinality({h \in Handlers : conv[u][h] # Idle}) <= 1) =>
            /\ Respond(u, "/cancel").ud = EmptyDict
            /\ Respond(u, "/cancel").db = DB
            /\ FirstActive(ConvAfter(u, "/cancel")) = "none"

Reprompts == {"invalid_choice_range", "enter_valid_number"}

\* C10 (numbered selection): with a candidate list of length N cached for the
\* delete flow, the texts 1 and N delete the first and the last listed entry;
\* 0, N+1 and text that is no number are answered with a re-prompt and leave
\* the ledger as it is.  The same for the edit flow, where 1 and N select the
\* entry to edit.
C10_SelectionBounds ==
    \A u \in Chatting :
        /\ Has(user_data[u], "delete_entries") =>
             LET entries == user_data[u]["delete_entries"]
             IN \A t \in NumberInputs :
                  LET r == Respond(u, t)
                  IN IF int(t).kind = "num" /\ int(t).v \in {1, Len(entries)}
                     THEN entries[int(t).v] \notin (r.db.expenses \cup r.db.incomes)
                     ELSE IF int(t).kind = "err" \/ int(t).v \in {0, Len(entries) + 1}
                     THEN r.db = DB /\ r.replies # <<>> /\ r.replies[1] \in Reprompts
                     ELSE TRUE
        /\ Has(user_data[u], "edit_entries") =>
             LET entries == user_data[u]["edit_entries"]
             IN \A t \in NumberInputs :
                  LET r == Respond(u, t)
                  IN IF int(t).kind = "num" /\ int(t).v \in {1, Len(entries)}
                     THEN Get(r.ud, "edit_entry_id", 0) = entries[int(t).v].id
                     ELSE IF int(t).kind = "err" \/ int(t).v \in {0, Len(entries) + 1}
                     THEN r.db = DB /\ r.replies # <<>> /\ r.replies[1] \in Reprompts
                     ELSE TRUE

\* the replies of a handler's result, as a set
RepliesOf(r) == {r.replies[i] : i \in DOMAIN r.replies}

\* no row with this id in the table belongs to user u
NoOwnedRow(db, table, id, u) ==
    \A r \in TableOf(db, table) : r.id = id => r.user_id # u

EditedValue(field, t) == IF field = "amount" THEN float(t) ELSE t

\* C12 (edit frame): an edit changes one field, the chosen one, of one row,
\* the one the session names: after handle_edit_value the other table and the
\* id sequences are as before, every other row of the edited table is as
\* before, and the named row differs from what it was in the chosen field
\* only (id, user_id, date, time, category, subcategory and the field not
\* chosen are kept); a confirmed edit of a row the user owns stores the value.
C12_EditFrame ==
    \A u \in Users : \A t \in EditInputs :
        (Has(user_data[u], "editing_field") /\ Has(user_data[u], "edit_entry_id")) =>
            LET field == user_data[u]["editing_field"]
                table == user_data[u]["edit_entry_table"]
                id == user_data[u]["edit_entry_id"]
                other == IF table = "incomes" THEN "expenses" ELSE "incomes"
                r == handle_edit_value(u, t, user_data[u], DB, TRUE)
            IN /\ TableOf(r.db, other) = TableOf(DB, other)
               /\ r.db.seq = seq
               /\ Cardinality(TableOf(r.db, table)) = Cardinality(TableOf(DB, table))
               /\ \A q \in TableOf(DB, table) :
                      IF q.id = id
                      THEN \E n \in TableOf(r.db, table) :
                               /\ n = [q EXCEPT ![field] = n[field]]
                               /\ ("updated" \in RepliesOf(r) /\ q.user_id = u)
                                      => n[field] = EditedValue(field, t)
                      ELSE q \in TableOf(r.db, table)

\* the session names one of two rows the user has in one table, and the edit
\* of its amount or of its description changes the ledger
C12_Witness ==
    \E u \in Chatting :
        /\ Has(user_data[u], "editing_field")
        /\ Has(user_data[u], "edit_entry_id")
        /\ \E q \in TableOf(DB, user_data[u]["edit_entry_table"]) :
               q.id = user_data[u]["edit_entry_id"] /\ q.user_id = u
        /\ Cardinality({q \in TableOf(DB, user_data[u]["edit_entry_table"]) :
                           q.user_id = u}) = 2
        /\ \E t \in {"0.01", "lunch"} :
               LET r == handle_edit_value(u, t, user_data[u], DB, TRUE)
               IN r.replies = <<"updated">> /\ r.db # DB

\* C13 (session destroyed at the end of a flow): whenever a conversation of
\* a user ends (its state goes back to Idle, by success, by cancellation or
\* by a bad choice), the session of the user is empty afterwards.
C13_SessionDestroyed ==
    [][\A u \in Chatting : \A h \in Handlers :
          (conv[u][h] # Idle /\ conv'[u][h] = Idle) => user_data'[u] = EmptyDict]_vars

\* C14 (the terminal step of the add flow clears the session): at the amount
\* step of a pair whose description is skipped an accepted amount, and at the
\* description step any text, leaves the session empty and ends the
\* conversation, whether the INSERT succeeds or raises.
C14_TerminalClears ==
    \A u \in Chatting : \A stored \in BOOLEAN :
        /\ (conv[u].add = "AMOUNT" /\ Get(user_data[u], "skip_description", FALSE)) =>
               \A t \in AcceptedAmounts :
                   LET r == amount(u, t, user_data[u], DB, stored)
                   IN r.ud = EmptyDict /\ NewState(conv[u].add, r.ret) = Idle
        /\ conv[u].add = "DESCRIPTION" =>
               \A t \in DescriptionInputs :
                   LET r == description(u, t, user_data[u], DB, stored)
                   IN r.ud = EmptyDict /\ NewState(conv[u].add, r.ret) = Idle

\* C15 (a storage failure leaves the ledger unchanged): when the INSERT, the
\* UPDATE or the DELETE of a handler raises, the ledger the handler leaves is
\* the ledger it found; save_expense then returns False, and the add flow
\* answers with the error message and never with the confirmation.
C15_StorageFailure ==
    \A u \in Users :
        /\ \A c \in {"Home", "Incomes"} :
               save_expense(DB, c, "Other", Num(1), Placeholder, u, FALSE)
                   = [ok |-> FALSE, db |-> DB]
        /\ conv[u].add = "AMOUNT" =>
               \A t \in AmountInputs :
                   LET r == amount(u, t, user_data[u], DB, FALSE)
                   IN /\ r.db = DB
                      /\ "saved" \notin RepliesOf(r)
                      /\ r.ret = END => r.replies = <<"save_error">>
        /\ conv[u].add = "DESCRIPTION" =>
               \A t \in DescriptionInputs :
                   LET r == description(u, t, user_data[u], DB, FALSE)
                   IN /\ r.db = DB
                      /\ "saved" \notin RepliesOf(r)
                      /\ r.ret = END => r.replies = <<"save_error">>
        /\ Has(user_data[u], "delete_entries") =>
               \A t \in NumberInputs :
                   LET r == handle_delete_number(u, t, user_data[u], DB, FALSE)
                   IN r.db = DB /\ "deleted" \notin RepliesOf(r)
        /\ Has(user_data[u], "editing_field") =>
               \A t \in EditInputs :
                   LET r == handle_edit_value(u, t, user_data[u], DB, FALSE)
                   IN r.db = DB /\ "updated" \notin RepliesOf(r)

\* the ledger holds a row and the user is at the amount step of a pair whose
\* description is skipped: the amount is saved when the INSERT succeeds, and
\* answered with the error message, the ledger unchanged, when it raises
C15_Witness ==
    \E u \in Chatting :
        /\ AllRows # {}
        /\ conv[u].add = "AMOUNT"
        /\ Get(user_data[u], "skip_description", FALSE)
        /\ amount(u, "999999", user_data[u], DB, TRUE).db # DB
        /\ amount(u, "999999", user_data[u], DB, FALSE).replies = <<"save_error">>
        /\ amount(u, "999999", user_data[u], DB, FALSE).db = DB

\* what a user is left with: the session, the ledger, the states of the
\* conversations, and the replies received so far
StateOf(u) == [ud |-> user_data[u], db |-> DB, conv |-> conv[u], replies |-> <<>>]

\* one event of user u handled from st, every write of the storage succeeding
Step(st, u, e) ==
    LET r == Run(Route(st.conv, e), u, e, st.ud, st.db, TRUE)
    IN [ud |-> r.ud, db |-> r.db, conv |-> After(st.conv, ConvOf(st.conv, e), r),
        replies |-> st.replies \o r.replies]

\* a sequence of events of user u handled from st
RECURSIVE Play(_, _, _)
Play(st, u, es) == IF es = <<>> THEN st ELSE Play(Step(st, u, Head(es)), u, Tail(es))

\* the row the next INSERT into a table of the current ledger creates
NextRow(table, u, cat, sub, amt, desc) ==
    [id |-> seq[table] + 1, user_id |-> u, date |-> Today,
     time |-> seq.expenses + seq.incomes + 1,
     category |-> cat, subcategory |-> sub, amount |-> amt, description |-> desc]

AddExpenseScript == <<"/add", "Expense", "Home", "Rent", "1000.00">>

\* C16 (end-to-end add expense): from a state where no conversation of the
\* user is active, /add, Expense, Home, Rent, 1000.00 ends the conversation
\* with the confirmation and without the description prompt, leaves the
\* session empty, adds to expenses exactly one row (owned by the sender, Home,
\* Rent, 1000.00, description N/A, date of today) and leaves incomes as it is.
C16_AddExpense ==
    \A u \in Chatting :
        FirstActive(conv[u]) = "none" =>
            LET f == Play(StateOf(u), u, AddExpenseScript)
                row == NextRow("expenses", u, "Home", "Rent", Num(100000), Placeholder)
            IN /\ row \notin expenses
               /\ f.db.expenses = expenses \cup {row}
               /\ f.db.incomes = incomes
               /\ f.conv.add = Idle
               /\ f.ud = EmptyDict
               /\ "enter_description" \notin {f.replies[i] : i \in DOMAIN f.replies}
               /\ f.replies[Len(f.replies)] = "saved"

\* the walk-through has been made on a ledger that held a row: the user is
\* back at Idle and owns a Home > Rent row of 1000.00 with the placeholder
C16_Witness ==
    \E u \in Chatting :
        /\ FirstActive(conv[u]) = "none"
        /\ user_data[u] = EmptyDict
        /\ incomes = {}
        /\ Cardinality(expenses) = 2
        /\ \E r \in expenses :
               /\ r.user_id = u /\ r.id = 2
               /\ r.category = "Home" /\ r.subcategory = "Rent"
               /\ r.amount = Num(100000) /\ r.description = Placeholder
               /\ r.date = Today

AddIncomeScript == <<"/add", "Income", "Salary", "2000.00">>

\* C17 (end-to-end add income): Income at the kind step stores the category
\* Incomes and asks for the income subcategory, never for a category; from a
\* state where no conversation of the user is active, /add, Income, Salary,
\* 2000.00 ends the conversation, adds to incomes exactly one row (owned by the
\* sender, Incomes, Salary, 2000.00) and leaves expenses as it is.
C17_AddIncome ==
    \A u \in Chatting :
        /\ conv[u].add = "ADD_TYPE" =>
               LET r == handle_add_type("Income", user_data[u], DB)
               IN /\ r.ret = "SUBCATEGORY"
                  /\ r.ud["category"] = "Incomes"
                  /\ r.replies = <<"select_income_category">>
        /\ FirstActive(conv[u]) = "none" =>
               LET f == Play(StateOf(u), u, AddIncomeScript)
                   row == NextRow("incomes", u, "Incomes", "Salary", Num(200000),
                                  Placeholder)
               IN /\ row \notin incomes
                  /\ f.db.incomes = incomes \cup {row}
                  /\ f.db.expenses = expenses
                  /\ f.conv.add = Idle
                  /\ "select_category" \notin {f.replies[i] : i \in DOMAIN f.replies}
                  /\ f.replies[Len(f.replies)] = "saved"

\* the walk-through has been made by a user who already had an expense: the
\* user is back at Idle and owns an Incomes > Salary row of 2000.00
C17_Witness ==
    \E u \in Chatting :
        /\ FirstActive(conv[u]) = "none"
        /\ \E r \in expenses : r.user_id = u
        /\ \E r \in incomes :
               /\ r.user_id = u /\ r.time = 2
               /\ r.category = "Incomes" /\ r.subcategory = "Salary"
               /\ r.amount = Num(200000)

\* the rows of a table that user u has in the period, with a pair and an amount
PairRows(rows, u, cat, sub, amt) ==
    {r \in rows : /\ r.user_id = u /\ r.date = Today
                  /\ r.category = cat /\ r.subcategory = sub /\ r.amount = float(amt)}

\* the group of a pair in a set of groups
GroupOf(G, cat, sub) == {g \in G : g.category = cat /\ g.subcategory = sub}

\* C18 (aggregate by pair): the aggregate of the summary and of the statistics
\* for a user, a period and a table has exactly one group for every pair
\* (category, subcategory) the user has rows of in the period and none for any
\* other pair; the group's count is the number of those rows and its total the
\* sum of their amounts (here 500 and 100 each counted as often as it occurs);
\* rows of other users count nowhere.  Home>Rent 500, Home>Rent 500 and
\* Car>Fuel 100 give (Home, Rent, 1000, 2) and (Car, Fuel, 100, 1).
C18_AggregateByPair ==
    \A u \in Users : \A tb \in {"expenses", "incomes"} :
        LET rows == TableOf(DB, tb)
            G == IF tb = "expenses"
                 THEN summary_figures(DB, u, Today, Today).expense_totals
                 ELSE summary_figures(DB, u, Today, Today).income_totals
            S == IF tb = "expenses"
                 THEN stats_figures(DB, u, Today, Today).expense_categories
                 ELSE stats_figures(DB, u, Today, Today).income_categories
        IN /\ S = G
           /\ \A p \in LedgerPairs :
                  LET n500 == Cardinality(PairRows(rows, u, p[1], p[2], "500"))
                      n100 == Cardinality(PairRows(rows, u, p[1], p[2], "100"))
                  IN IF n500 + n100 = 0
                     THEN GroupOf(G, p[1], p[2]) = {}
                     ELSE GroupOf(G, p[1], p[2])
                              = {[category |-> p[1], subcategory |-> p[2],
                                  total |-> n500 * 50000 + n100 * 10000,
                                  count |-> n500 + n100]}
           /\ \A g \in G : <<g.category, g.subcategory>> \in LedgerPairs
           /\ (/\ Cardinality({r \in rows : r.user_id = u}) = 3
               /\ Cardinality(PairRows(rows, u, "Home", "Rent", "500")) = 2
               /\ Cardinality(PairRows(rows, u, "Car", "Fuel", "100")) = 1)
                  => G = {[category |-> "Home", subcategory |-> "Rent",
                           total |-> 100000, count |-> 2],
                          [category |-> "Car", subcategory |-> "Fuel",
                           total |-> 10000, count |-> 1]}

\* the user's expenses are Home>Rent 500, Home>Rent 500 and Car>Fuel 100, and
\* the user is at the period step of the summary, where Today shows them
C18_Witness ==
    \E u \in Chatting :
        /\ Cardinality({r \in expenses : r.user_id = u}) = 3
        /\ Cardinality(PairRows(expenses, u, "Home", "Rent", "500")) = 2
        /\ Cardinality(PairRows(expenses, u, "Car", "Fuel", "100")) = 1
        /\ conv[u].summary = "SUMMARY_PERIOD"
        /\ handle_summary_period(u, "Today", user_data[u], DB).replies = <<"summary">>

\* the configuration of the module, and two that map a category to "all"
SkipConfigs ==
    LET listed == [c \in DOMAIN AUTO_DESCRIPTION |-> Listed(AUTO_DESCRIPTION[c])]
    IN {listed,
        [c \in DOMAIN listed \cup {"Travel"} |-> IF c = "Travel" THEN All ELSE listed[c]],
        [c \in DOMAIN listed |-> IF c = "Home" THEN All ELSE listed[c]]}

LookupCategories == DOMAIN SUBCATEGORIES \cup {"Pets", "Subscriptions"}
LookupSubcategories == UNION {SUBCATEGORIES[c] : c \in DOMAIN SUBCATEGORIES} \cup {"Netflix"}

\* C19 (skip-description lookup): the lookup is true exactly when the
\* category maps to "all" in the configuration or the subcategory is in the
\* category's list, and false for a category the configuration does not have;
\* with the module's configuration it is true for Home/Rent and
\* Incomes/Salary, false for Home/Other and Incomes/Others, and the
\* subcategory step of the add flow sets skip_description exactly then.
C19_SkipLookup ==
    /\ \A config \in SkipConfigs : \A c \in LookupCategories : \A sub \in LookupSubcategories :
           skip_lookup(config, c, sub)
               <=> /\ c \in DOMAIN config
                   /\ (config[c].all \/ sub \in config[c].subs)
    /\ \A c \in LookupCategories : \A sub \in LookupSubcategories :
           should_skip_description(c, sub)
               <=> (c \in DOMAIN AUTO_DESCRIPTION /\ sub \in AUTO_DESCRIPTION[c])
    /\ should_skip_description("Home", "Rent")
    /\ should_skip_description("Incomes", "Salary")
    /\ ~should_skip_description("Home", "Other")
    /\ ~should_skip_description("Incomes", "Others")
    /\ \A u \in Chatting :
           (conv[u].add = "SUBCATEGORY" /\ Has(user_data[u], "category")) =>
               \A t \in {"Rent", "Other", "Salary", "Others"} :
                   LET r == subcategory(t, user_data[u], DB)
                   IN Has(r.ud, "skip_description")
                          <=> <<user_data[u]["category"], t>>
                                  \in {<<"Home", "Rent">>, <<"Incomes", "Salary">>}
    /\ \A u \in Chatting :
           Has(user_data[u], "skip_description") =>
               <<user_data[u]["category"], user_data[u]["subcategory"]>>
                   \in {<<"Home", "Rent">>, <<"Incomes", "Salary">>}

\* the user has chosen Incomes > Salary and is asked for the amount with the
\* description step marked as skipped
C19_Witness ==
    \E u \in Chatting :
        /\ conv[u].add = "AMOUNT"
        /\ Get(user_data[u], "category", "None") = "Incomes"
        /\ Get(user_data[u], "subcategory", "None") = "Salary"
        /\ Has(user_data[u], "skip_description")

PeriodSteps ==
    {"SUMMARY_PERIOD", "SUMMARY_MONTH", "SUMMARY_YEAR", "EDIT_PERIOD", "DELETE_PERIOD"}

\* C20 (a bad menu choice re-prompts): at a period-selection step (the period
\* menu, the month menu, the year menu) a text that is none of the offered
\* choices is answered with a message and leaves the conversation at the
\* same step.
C20_BadChoiceReprompts ==
    \A u \in Chatting : \A h \in {"summary", "edit", "delete"} :
        (FirstActive(conv[u]) = h /\ conv[u][h] \in PeriodSteps) =>
            /\ Respond(u, "abc").replies # <<>>
            /\ ConvAfter(u, "abc")[h] = conv[u][h]

DaySteps == {"SUMMARY_DAY", "EXPENSE_DAY", "EDIT_DAY", "DELETE_DAY"}

\* the texts of DayInputs a step takes as a date, with the date they name:
\* the summary takes DD/MM, DD/MM/YYYY and YYYY-MM-DD, the other steps DD/MM/YY
NamedDate(step, t) ==
    IF step = "SUMMARY_DAY"
    THEN CASE t \in {"1/11", "01/11/2026", "2026-11-01"} -> 20261101
           [] OTHER -> 0
    ELSE CASE t = "01/11/26" -> 20261101
           [] t = "29/02/24" -> 20240229
           [] OTHER -> 0

\* C21 (invalid dates are rejected, not clamped): at every step that asks for
\* a specific day, a text that names no day of the calendar in a pattern of
\* the step (31/02, 29/02 of a common year, month 13, 31/04, text that is no
\* date) is answered with a re-prompt, the conversation stays at the step and
\* the session and the ledger are unchanged; a text that names a day leaves
\* the step, and the date the listing caches and reads with is that day as
\* YYYYMMDD.
C21_InvalidDatesRejected ==
    \A u \in Chatting : \A t \in DayInputs :
        LET h == FirstActive(conv[u])
            r == Respond(u, t)
        IN (h # "none" /\ conv[u][h] \in DaySteps) =>
               IF NamedDate(conv[u][h], t) = 0
               THEN /\ r.ret = conv[u][h]
                    /\ r.replies \in {<<"invalid_date_format">>, <<"invalid_date">>}
                    /\ r.ud = user_data[u]
                    /\ r.db = DB
               ELSE /\ r.ret # conv[u][h]
                    /\ RepliesOf(r) \cap {"invalid_date_format", "invalid_date"} = {}
                    /\ RepliesOf(r) \cap {"edit_list", "delete_list"} # {} =>
                           r.ud["period_value"] = NamedDate(conv[u][h], t)
                    /\ RepliesOf(r) \cap {"summary", "entries", "edit_list", "delete_list"} # {}
                           <=> NamedDate(conv[u][h], t) = Today /\ Owned(DB, u).expenses # {}

\* the user has an entry of today and is at the date step of the edit flow,
\* where 31/02/26 is refused and 01/11/26 lists the entry
C21_Witness ==
    \E u \in Chatting :
        /\ FirstActive(conv[u]) = "edit"
        /\ conv[u].edit = "EDIT_DAY"
        /\ Owned(DB, u).expenses # {}
        /\ Respond(u, "31/02/26").ret = "EDIT_DAY"
        /\ Respond(u, "01/11/26").replies = <<"edit_list">>
        /\ Respond(u, "01/11/26").ud["period_value"] = 20261101

\* the numbers of the entries of the edit flow's list that are incomes: the
\* list is fetched as show_edit_entries fetches it, expenses first, and no
\* earlier step of the edit is pending
EditListIncomes(u) ==
    LET entries == Get(user_data[u], "edit_entries", <<>>)
        shown == Len(get_entries_for_period(DB, Today, Today, u, "expenses"))
    IN IF /\ Route(conv[u], "1") = "handle_text_input"
          /\ entries # <<>>
          /\ entries = period_entries(DB, u, Today, Today)
          /\ ~Has(user_data[u], "editing_field")
          /\ ~Has(user_data[u], "edit_entry_data")
       THEN {n \in {"1", "2"} : int(n).v > shown /\ int(n).v <= Len(entries)}
       ELSE {}

\* C22 (edit acts on the selected entry's own table): when the number sent
\* selects an income of the edit flow's list, the selection names the incomes
\* table, and the new amount then applied to the selection is written to the
\* incomes row with that id while the expenses table is as before.
C22_EditOwnTable ==
    \A u \in Chatting : \A n \in EditListIncomes(u) :
        LET row == user_data[u]["edit_entries"][int(n).v]
            chosen == Respond(u, n)
            edited == handle_edit_value(u, "0.01", Put(chosen.ud, "editing_field", "amount"),
                                        chosen.db, TRUE)
        IN /\ chosen.ud["edit_entry_table"] = "incomes"
           /\ edited.db.expenses = expenses
           /\ [row EXCEPT !.amount = float("0.01")] \in edited.db.incomes

\* the candidate list a number sent by the user selects from, when the number
\* goes to handle_edit_number or to handle_delete_number
ListSelectedFrom(u) ==
    IF Route(conv[u], "1") # "handle_text_input" \/ Truthy(user_data[u], "editing_field")
    THEN "none"
    ELSE IF Truthy(user_data[u], "edit_entries") THEN "edit_entries"
    ELSE IF Truthy(user_data[u], "delete_entries") THEN "delete_entries"
    ELSE "none"

\* C23 (the candidate list survives a bad selection): after a number outside
\* the list was sent in the edit flow or in the delete flow, the session still
\* holds the same list, and the number 1 sent next selects the first entry of
\* that list (the edit names its id, the delete removes its row).
C23_ListSurvives ==
    \A u \in Chatting : \A n \in {"0", "3"} :
        LET key == ListSelectedFrom(u)
            entries == user_data[u][key]
            bad == Respond(u, n)
            next == Play(StateOf(u), u, <<n, "1">>)
        IN (key # "none" /\ int(n).v \notin 1..Len(entries)) =>
               /\ Has(bad.ud, key)
               /\ bad.ud[key] = entries
               /\ key = "edit_entries" => Get(next.ud, "edit_entry_id", 0) = entries[1].id
               /\ (key = "delete_entries" /\ entries[1] \in expenses \cup incomes) =>
                      entries[1] \notin next.db.expenses \cup next.db.incomes

C25_SessionConsistent ==
    \A u \in Chatting :
        /\ conv[u].add = "AMOUNT" =>
               /\ Has(user_data[u], "category")
               /\ \A t \in AcceptedAmounts : amount(u, t, user_data[u], DB, TRUE).ret # RAISE
        /\ conv[u].add = "DESCRIPTION" =>
               /\ Has(user_data[u], "category")
               /\ Has(user_data[u], "amount")
               /\ \A t \in DescriptionInputs :
                      description(u, t, user_data[u], DB, TRUE).ret # RAISE

\* C26 (a rejected amount changes nothing): when the amount step of the add
\* flow receives a text it refuses (abc, inf, nan, 0, -50, 1000000), the flow
\* stays at the amount step, the reply names the refusal, the category and the
\* subcategory of the session are as before, the session holds no amount, or
\* the one it held, and nothing else changes in it, and the ledger is as before.
C26_RejectedAmountFrame ==
    \A u \in Chatting : \A t \in AmountInputs \ AcceptedAmounts :
        Route(conv[u], t) = "amount" =>
            LET r == Respond(u, t)
            IN /\ ConvAfter(u, t) = conv[u]
               /\ r.ret = "AMOUNT"
               /\ r.replies \in {<<"amount_not_number">>, <<"amount_invalid">>,
                                 <<"amount_not_positive">>, <<"amount_too_large">>}
               /\ Has(r.ud, "category") <=> Has(user_data[u], "category")
               /\ Get(r.ud, "category", "None") = Get(user_data[u], "category", "None")
               /\ Get(r.ud, "subcategory", "None") = Get(user_data[u], "subcategory", "None")
               /\ Has(r.ud, "amount") <=> Has(user_data[u], "amount")
               /\ r.ud = user_data[u]
               /\ r.db = DB

\* the add flow waits for the amount of Home / Other with no amount in the
\* session, and refuses 0 and 1000000 there
C26_Witness ==
    \E u \in Chatting :
        /\ Route(conv[u], "0") = "amount"
        /\ Get(user_data[u], "category", "None") = "Home"
        /\ Get(user_data[u], "subcategory", "None") = "Other"
        /\ ~Has(user_data[u], "amount")
        /\ Respond(u, "0").replies = <<"amount_not_positive">>
        /\ Respond(u, "1000000").replies = <<"amount_too_large">>

\* C27 (the category must be a catalog entry): at the category step a text
\* that is no category of the catalog is answered with the category prompt,
\* the flow stays at the category step and the session is as before; a
\* catalog category is stored and the flow goes on to the subcategory step;
\* the category of a session and of a saved entry is a catalog category, or
\* Incomes for an income.
C27_CategoryInCatalog ==
    /\ \A r \in expenses : r.category \in EXPENSE_CATEGORIES
    /\ \A r \in incomes : r.category = "Incomes"
    /\ \A u \in Chatting :
        /\ Has(user_data[u], "category") =>
               user_data[u]["category"] \in EXPENSE_CATEGORIES \cup {"Incomes"}
        /\ \A t \in CategoryInputs :
               Route(conv[u], t) = "category" =>
                   LET r == Respond(u, t)
                   IN IF t \in EXPENSE_CATEGORIES
                      THEN r.ret = "SUBCATEGORY" /\ r.ud["category"] = t
                      ELSE r.ret = "CATEGORY" /\ r.ud = user_data[u]

\* C28 (the subcategory belongs to its category): every entry the add flow
\* saved for a user has a subcategory of the catalog's set of its category;
\* for a free-text category (Subscriptions) the subcategory is the name that
\* was typed, and for a category without subcategories it is N/A.
C28_SubcategoryOfCategory ==
    \A r \in AllRows :
        r.user_id \in Chatting =>
            IF r.category \in TEXT_SUBCATEGORY_CATEGORIES THEN TRUE
            ELSE IF r.category \in DOMAIN SUBCATEGORIES
            THEN r.subcategory \in SUBCATEGORIES[r.category]
            ELSE r.subcategory = "N/A"

C30_SubscriptionBounds ==
    \A u \in Chatting : \A t \in SubscriptionNames :
        (/\ Route(conv[u], t) = "subcategory"
         /\ Get(user_data[u], "category", "None") \in TEXT_SUBCATEGORY_CATEGORIES) =>
            LET r == Respond(u, t)
                n == len(strip(t))
            IN /\ ~Has(user_data[u], "subcategory")
               /\ IF n >= 2 /\ n <= 50
                  THEN /\ r.ret = "AMOUNT"
                       /\ r.ud = Put(user_data[u], "subcategory", strip(t))
                  ELSE /\ r.ret = "SUBCATEGORY"
                       /\ ConvAfter(u, t) = conv[u]
                       /\ r.replies = IF n < 2 THEN <<"subscription_too_short">>
                                      ELSE <<"subscription_too_long">>
                       /\ r.ud = user_data[u]
               /\ r.db = DB

\* the add flow waits for the name of a subscription: names of 2 and of 50
\* characters are taken, names of 1 and of 51 characters are refused
C30_Witness ==
    \E u \in Chatting :
        /\ conv[u].add = "SUBCATEGORY"
        /\ Get(user_data[u], "category", "None") = "Subscriptions"
        /\ Respond(u, "ab").ret = "AMOUNT"
        /\ Respond(u, "name of 50").ud["subcategory"] = "name of 50"
        /\ Respond(u, "x").replies = <<"subscription_too_short">>
        /\ Respond(u, "name of 51").replies = <<"subscription_too_long">>

SpecEvents ==
    Commands \cup AddTypeInputs \cup CategoryInputs \cup SubcategoryInputs
        \cup AmountInputs \cup DescriptionInputs \cup PeriodInputs \cup FreeInputs

\* the handlers whose code holds an INSERT, an UPDATE or a DELETE
Writers == {"amount", "description", "handle_text_input"}

\* no handler other than the three that write changes the ledger, and the
\* search does not; free text outside every conversation changes the ledger
\* only while the session names a value to edit or a list to delete from
ReadersLeaveLedger ==
    \A u \in Chatting :
        /\ \A e \in SpecEvents :
               Respond(u, e).db # DB =>
                   /\ Route(conv[u], e) \in Writers
                   /\ Route(conv[u], e) = "handle_text_input" =>
                          \/ Truthy(user_data[u], "editing_field")
                          \/ Truthy(user_data[u], "delete_entries")
        /\ \A term \in SearchTerms : search_command(u, term, user_data[u], DB).db = DB

\* a step that changes the rows of a user is the end of the add conversation
\* and inserts one row, or is a number sent outside every conversation with a
\* delete list cached and removes one row, or is a value sent with a field to
\* edit and changes rows in place
WritesAreTerminal ==
    \A u \in Chatting :
        LET before == Owned(DB, u).expenses \cup Owned(DB, u).incomes
            after == {r \in expenses' \cup incomes' : r.user_id = u}
        IN (Owned(DB, u).expenses # {r \in expenses' : r.user_id = u}
               \/ Owned(DB, u).incomes # {r \in incomes' : r.user_id = u}) =>
               \/ /\ conv[u].add \in {"AMOUNT", "DESCRIPTION"}
                  /\ conv'[u].add = Idle
                  /\ before \subseteq after
                  /\ Cardinality(after) = Cardinality(before) + 1
               \/ /\ FirstActive(conv[u]) = "none"
                  /\ Truthy(user_data[u], "delete_entries")
                  /\ ~Has(user_data'[u], "delete_entries")
                  /\ after \subseteq before
                  /\ Cardinality(after) = Cardinality(before) - 1
               \/ /\ FirstActive(conv[u]) = "none"
                  /\ Truthy(user_data[u], "editing_field")
                  /\ Cardinality(after) = Cardinality(before)

MonthsWithData(u) == {r.date \div 100 : r \in Owned(DB, u).expenses \cup Owned(DB, u).incomes}
YearsWithData(u) == {r.date \div 10000 : r \in Owned(DB, u).expenses \cup Owned(DB, u).incomes}

\* the key YYYYMM a month label names
MonthOfLabel(label) ==
    CASE label = "November 2026" -> 202611
      [] label = "October 2026" -> 202610
      [] label = "December 2025" -> 202512
      [] OTHER -> 0

\* C33 (the period menus show only periods with data): the month menu and the
\* year menu offered to a user list exactly the months and the years in which
\* the user has an expense or an income, each once, the newest first; a
\* period that holds only rows of the other user is not listed; when the
\* Month choice of the summary or of the expense view is answered with the
\* menu, the mapping stored in the session takes each label of the menu to the
\* month of its name, and with no row of the user the answer is "no data".
C33_MenusOfOwnPeriods ==
    \A u \in Chatting :
        LET months == month_keyboard(DB, u)
            years == year_keyboard(DB, u)
        IN /\ {MonthOfLabel(months[i]) : i \in DOMAIN months} = MonthsWithData(u)
           /\ Len(months) = Cardinality(MonthsWithData(u))
           /\ \A i \in DOMAIN months : \A j \in DOMAIN months :
                  i < j => MonthOfLabel(months[i]) > MonthOfLabel(months[j])
           /\ {years[i] : i \in DOMAIN years} = YearsWithData(u)
           /\ \A i \in DOMAIN years : \A j \in DOMAIN years : i < j => years[i] > years[j]
           /\ \A key \in {"summary_month_mapping", "month_mapping"} :
                  LET r == Respond(u, "Month")
                  IN Route(conv[u], "Month")
                         = (IF key = "month_mapping" THEN "handle_expense_period"
                            ELSE "handle_summary_period") =>
                         IF MonthsWithData(u) = {}
                         THEN r.replies = <<"no_data">> /\ r.ret = END
                         ELSE /\ DOMAIN r.ud[key] = {months[i] : i \in DOMAIN months}
                              /\ \A label \in DOMAIN r.ud[key] :
                                     r.ud[key][label] = MonthOfLabel(label)
           /\ \A h \in {"handle_expense_period", "handle_summary_period"} :
                  (Route(conv[u], "Year") = h /\ YearsWithData(u) = {}) =>
                      Respond(u, "Year").replies = <<"no_data">>

\* the user has rows in two months of two years, the other user has a row in
\* a third month, and the user is at the period step of the expense view
C33_Witness ==
    \E u \in Chatting : \E v \in Recording :
        /\ Cardinality(MonthsWithData(u)) = 2
        /\ Cardinality(YearsWithData(u)) = 2
        /\ MonthsWithData(v) \ MonthsWithData(u) # {}
        /\ Route(conv[u], "Month") = "handle_expense_period"
        /\ Len(month_keyboard(DB, u)) = 2
        /\ DOMAIN Respond(u, "Month").ud["month_mapping"]
               = {format_month_for_display(m) : m \in MonthsWithData(u)}

LacksField(u, e) ==
    \/ Route(conv[u], e) \in {"subcategory", "amount", "description"}
           /\ ~Has(user_data[u], "category")
    \/ Route(conv[u], e) = "description" /\ ~Has(user_data[u], "amount")

\* C35 (every returned state has a handler): whatever a handler dispatched by
\* a conversation returns is the end of the conversation, no value (the state
\* is kept) or a state of that conversation, for which main() registers a
\* handler; no handler fails on the name of the state it returns.
C35_ReturnedStateHandled ==
    \A u \in Chatting : \A e \in SpecEvents :
        LET h == ConvOf(conv[u], e)
            r == Respond(u, e)
        IN (h # "none" /\ ~LacksField(u, e)) => r.ret \in {END, NONE} \cup States(h)

\* the keys of one delete or edit operation: the cached candidate lists, the
\* selected entry and the field being edited
OperationKeys ==
    {"delete_entries", "edit_entries", "edit_entry_id", "edit_entry_data", "editing_field"}

\* C36: whatever the delete-number handler and the edit-value handler are
\* sent, and whether the write succeeds or raises, the session they leave
\* holds none of the keys of the operation: not the cached candidate list,
\* not the selected entry id and data, not the field being edited.
C36_OperationKeysRemoved ==
    \A u \in Chatting : \A stored \in BOOLEAN :
        /\ Has(user_data[u], "delete_entries") =>
               \A t \in NumberInputs :
                   DOMAIN handle_delete_number(u, t, user_data[u], DB, stored).ud
                       \cap OperationKeys = {}
        /\ Has(user_data[u], "editing_field") =>
               \A t \in EditInputs :
                   DOMAIN handle_edit_value(u, t, user_data[u], DB, stored).ud
                       \cap OperationKeys = {}

\* a session at the new-value step of the amount of a selected entry: the
\* text that is no number is answered and leaves the handler by an
\* exception, a valid amount is written, and neither leaves a key behind
C36_Witness ==
    \E u \in Chatting :
        /\ Get(user_data[u], "editing_field", "None") = "amount"
        /\ Has(user_data[u], "edit_entry_id") /\ Has(user_data[u], "edit_entry_data")
        /\ handle_edit_value(u, "abc", user_data[u], DB, TRUE).ret = RAISE
        /\ DOMAIN handle_edit_value(u, "abc", user_data[u], DB, TRUE).ud
               \cap OperationKeys = {}
        /\ handle_edit_value(u, "0.01", user_data[u], DB, TRUE).db # DB
        /\ DOMAIN handle_edit_value(u, "0.01", user_data[u], DB, FALSE).ud
               \cap OperationKeys = {}

PairEvents(u) ==
    {"/add", "/cancel", "Home"} \cup PairTypes(u) \cup PairSubcategories(u)
        \cup PairAmounts(u) \cup PairDescriptions(u)

\* a step is one event of one user u: the session and the conversations of u
\* and the rows of u after it are what the handler makes of the session, the
\* conversations and the rows of u alone, and nothing of any other user
\* changes
StepOfOneUser ==
    \E u \in Users : \E e \in PairEvents(u) : \E stored \in BOOLEAN :
        LET r == Run(Route(conv[u], e), u, e, user_data[u], OwnLedger(u), stored)
        IN /\ user_data' = [user_data EXCEPT ![u] = r.ud]
           /\ conv' = [conv EXCEPT ![u] = After(@, ConvOf(conv[u], e), r)]
           /\ {x \in expenses' : x.user_id = u} = r.db.expenses
           /\ {x \in incomes' : x.user_id = u} = r.db.incomes
           /\ {x \in expenses' : x.user_id # u} = {x \in expenses : x.user_id # u}
           /\ {x \in incomes' : x.user_id # u} = {x \in incomes : x.user_id # u}

\* the forms in which the texts of user u are stored
StoredAmounts(u) == {float(t) : t \in PairAmounts(u) \ {"abc"}}
StoredDescriptions(u) == {truncate(t) : t \in PairDescriptions(u)} \cup {Placeholder}

\* every field of a stored row was sent by the user the row is saved for
RowsHoldOwnFields ==
    \A x \in expenses \cup incomes :
        /\ x.user_id \in Users
        /\ x.category = (IF x.user_id = 12345 THEN "Home" ELSE "Incomes")
        /\ x.subcategory \in PairSubcategories(x.user_id)
        /\ x.amount \in StoredAmounts(x.user_id)
        /\ x.description \in StoredDescriptions(x.user_id)

\* C37: in any interleaving of the events of two users in the add
\* conversation, every step changes the conversation state, the session and
\* the rows of one user only, and as that user's event would have changed
\* them alone; no row saved for one user holds a field the other sent.
C37_UsersDoNotInterfere == []RowsHoldOwnFields /\ [][StepOfOneUser]_vars

\* both users are in the middle of an entry, at different steps and with
\* different collected fields, and a row of each is already saved
C37_Witness ==
    /\ conv[12345].add = "DESCRIPTION" /\ conv[67890].add = "AMOUNT"
    /\ user_data[12345]["subcategory"] = "Other"
    /\ user_data[67890]["subcategory"] = "Salary"
    /\ \E x \in expenses : x.user_id = 12345
    /\ \E x \in incomes : x.user_id = 67890

\* the handler of a day step takes the text as a date: it leaves the step
\* instead of asking again
TakenAsDate(step, u, t) ==
    CASE step = "SUMMARY_DAY" -> handle_summary_day(u, t, user_data[u], DB).ret # step
      [] step = "EXPENSE_DAY" -> handle_expense_day(u, t, user_data[u], DB).ret # step
      [] step = "EDIT_DAY" -> handle_edit_day(u, t, user_data[u], DB).ret # step
      [] step = "DELETE_DAY" -> handle_delete_day(u, t, user_data[u], DB).ret # step

\* C38: a user at a step that asks for a specific day sends a text; the
\* steps of the summary, the expense view, the edit and the delete flows
\* all take it as a date or all ask again, and the ones that take it take it
\* as the same date.
C38_OneDateGrammar ==
    \A u \in Chatting : \A h \in Handlers :
        conv[u][h] \in DaySteps =>
            \A t \in DayInputs : \A other \in DaySteps :
                /\ TakenAsDate(conv[u][h], u, t) <=> TakenAsDate(other, u, t)
                /\ NamedDate(conv[u][h], t) = NamedDate(other, t)

\* the ranges the period listings read with: a day, a month, a year
ListedRanges ==
    {[start_date |-> d, end_date |-> d] : d \in MenuDays}
        \cup {get_month_date_range(m) : m \in {202512, 202610, 202611}}
        \cup {get_year_date_range(y) : y \in {2025, 2026}}

\* C39: the listing of a period for a user, a kind and a range holds every
\* row of that kind the user owns whose date is in the range, both bounds
\* included, each once, and no other row; a row comes before another when
\* its date is later, or the date is the same and its time is later.
C39_RangeQueryResult ==
    \A u \in Users : \A table \in {"expenses", "incomes"} : \A range \in ListedRanges :
        LET entries == get_entries_for_period(DB, range.start_date, range.end_date, u, table)
        IN /\ \A r \in TableOf(DB, table) :
                  (\E i \in 1..Len(entries) : entries[i] = r)
                      <=> (r.user_id = u /\ range.start_date <= r.date
                               /\ r.date <= range.end_date)
           /\ \A i \in 1..Len(entries) : \A j \in 1..Len(entries) :
                  i < j => /\ entries[i] # entries[j]
                           /\ entries[i].date >= entries[j].date
                           /\ entries[i].date = entries[j].date
                                  => entries[i].time > entries[j].time

\* the user is at the month menu of the expense view with expenses on two
\* days of 2026, one of them the first day of November, and the other user
\* has an expense in November too: the listing of November is the one row of
\* the user on the first bound, the listing of 2026 both rows, newest first
C39_Witness ==
    \E u \in Chatting : \E v \in Recording :
        LET november == get_entries_for_period(DB, 20261101, 20261130, u, "expenses")
            year == get_entries_for_period(DB, 20260101, 20261231, u, "expenses")
        IN /\ conv[u].expense = "EXPENSE_MONTH"
           /\ handle_expense_month(u, "November 2026", user_data[u], DB).replies
                  = <<"entries">>
           /\ Len(november) = 1 /\ november[1].date = 20261101
           /\ Len(year) = 2 /\ year[1].date = 20261101 /\ year[2].date = 20261015
           /\ \E r \in expenses : r.user_id = v /\ r.date = 20261101

\* C40: in the root revision every entry is stored under today's date when
\* the only way entries are added is /add, which asks for no date, whatever
\* the user did before it, a completed /view_d, /edit_d or /delete_d for
\* another date included.
C40_AddStoresToday == \A r \in expenses \cup incomes : r.date = Today

====
